---- MODULE Spec2Model ----
(***************************************************************************)
(* charset-normalizer-rs: the probe pipeline `from_bytes` (src/lib.rs)     *)
(* with the pieces it calls: label resolution and decoding (src/utils.rs), *)
(* the mess detector (src/md.rs) and the match container (src/entity.rs).  *)
(*                                                                         *)
(* Bytes are integers 0..255, decoded text is a sequence of Unicode code   *)
(* points, f32 ratios are fixed-point integers in units of 1/Scale.        *)
(* Option<T> is a record [some |-> BOOLEAN, ...]; Option<String> of an     *)
(* encoding name is the name or "" (what unwrap_or_default() gives).       *)
(***************************************************************************)
EXTENDS Integers, Sequences, FiniteSets, TLC

\* ---------------------------------------------------------------- bounds
\* Longest body (bytes between the optional signature and the optional
\* declarative hint) of an input.
MaxBody == 2

\* ------------------------------------------------------------- constants
\* consts.rs is not part of src/; the three size constants are the ones the
\* specification names.  TOO_BIG_SEQUENCE and MAX_PROCESSED_BYTES are scaled
\* down so that "too large" inputs fit the input bound; the order
\* MAX_PROCESSED_BYTES <= TOO_BIG_SEQUENCE + 1, which the slices of
\* lib.rs:325 and lib.rs:435 need, is kept.
TOO_SMALL_SEQUENCE == 32
TOO_BIG_SEQUENCE == 4
MAX_PROCESSED_BYTES == 3

\* one unit of a ratio is 1/Scale (per mille)
Scale == 10 * 100

\* ------------------------------------------------------- sequence helpers
Range(s) == {s[i] : i \in 1..Len(s)}

Contains(s, x) == \E i \in 1..Len(s) : s[i] = x

Min(a, b) == IF a < b THEN a ELSE b

Max(a, b) == IF a > b THEN a ELSE b

\* &s[from..to] with 0-based, end-exclusive indices
Slice(s, from, to) == SubSeq(s, from + 1, to)

starts_with(s, p) == Len(p) <= Len(s) /\ SubSeq(s, 1, Len(p)) = p

\* ------------------------------------------------ Unicode character data
\* The code points that the model's inputs can decode to, with the data the
\* unic crate gives for them.
CodePoints ==
    {1, 10, 27, 36, 53, 56, 58, 64,
     97, 99, 100, 102, 103, 105, 108, 110, 111, 116, 117,
     169, 187, 191, 195, 233, 239, 254, 255, 257, 351, 353, 375, 510, 7776, 7777,
     24833, 24929, 25086, 30209, 65025, 65121, 65278, 65279}

GeneralCategory(c) ==
    CASE c \in {1, 10, 27} -> "Cc"
      [] c = 36 -> "Sc"
      [] c \in {53, 56} -> "Nd"
      [] c \in {58, 64, 191, 65121} -> "Po"
      [] c = 169 -> "So"
      [] c = 187 -> "Pf"
      [] c \in {195, 510, 7776} -> "Lu"
      [] c \in {24833, 24929, 25086, 30209, 54620} -> "Lo"
      [] c = 65025 -> "Mn"
      [] c = 65278 -> "Cn"
      [] c = 65279 -> "Cf"
      [] OTHER -> "Ll"

\* The words of Name::of(c) that the classifier searches for.
Name(c) ==
    CASE c \in {24833, 24929, 25086, 30209} -> {"CJK"}
      [] c = 54620 -> {"HANGUL"}
      [] c = 195 -> {"LATIN", "WITH TILDE"}
      [] c = 233 -> {"LATIN", "WITH ACUTE"}
      [] c \in {239, 255} -> {"LATIN", "WITH DIAERESIS"}
      [] c = 351 -> {"LATIN", "WITH CEDILLA"}
      [] c = 375 -> {"LATIN", "WITH CIRCUMFLEX"}
      [] GeneralCategory(c) \in {"Ll", "Lu"} -> {"LATIN"}
      [] OTHER -> {}

\* first character of the canonical decomposition
remove_accent(ch) ==
    CASE ch = 195 -> 65
      [] ch = 233 -> 101
      [] ch = 239 -> 105
      [] ch \in {255, 375} -> 121
      [] ch = 257 -> 97
      [] ch \in {351, 353, 7777} -> 115
      [] ch = 510 -> 216
      [] ch = 7776 -> 83
      [] OTHER -> ch

is_whitespace(c) == c \in {9, 10, 11, 12, 13, 32}

is_ascii_graphic(c) == c >= 33 /\ c <= 126

is_ascii_alphabetic(c) == (c >= 65 /\ c <= 90) \/ (c >= 97 /\ c <= 122)

is_ascii_digit(c) == c >= 48 /\ c <= 57

\* UNICODE_RANGES_COMBINED: the named Unicode blocks
unicode_range(c) ==
    CASE c <= 31 -> "Control character"
      [] c <= 127 -> "Basic Latin"
      [] c <= 255 -> "Latin-1 Supplement"
      [] c <= 383 -> "Latin Extended-A"
      [] c <= 591 -> "Latin Extended-B"
      [] c >= 7680 /\ c <= 7935 -> "Latin Extended Additional"
      [] c >= 19968 /\ c <= 40959 -> "CJK Unified Ideographs"
      [] c >= 44032 /\ c <= 55215 -> "Hangul Syllables"
      [] c >= 65024 /\ c <= 65039 -> "Variation Selectors"
      [] c >= 65104 /\ c <= 65135 -> "Small Form Variants"
      [] c >= 65136 /\ c <= 65279 -> "Arabic Presentation Forms-B"
      [] OTHER -> "None"

\* range_name.split_whitespace()
split_whitespace(range) ==
    CASE range = "Control character" -> {"Control", "character"}
      [] range = "Basic Latin" -> {"Basic", "Latin"}
      [] range = "Latin-1 Supplement" -> {"Latin-1", "Supplement"}
      [] range = "Latin Extended-A" -> {"Latin", "Extended-A"}
      [] range = "Latin Extended-B" -> {"Latin", "Extended-B"}
      [] range = "Latin Extended Additional" -> {"Latin", "Extended", "Additional"}
      [] range = "CJK Unified Ideographs" -> {"CJK", "Unified", "Ideographs"}
      [] range = "Hangul Syllables" -> {"Hangul", "Syllables"}
      [] range = "Variation Selectors" -> {"Variation", "Selectors"}
      [] range = "Small Form Variants" -> {"Small", "Form", "Variants"}
      [] range = "Arabic Presentation Forms-B" -> {"Arabic", "Presentation", "Forms-B"}
      [] OTHER -> {}

\* range.contains(pattern), for the one- and two-word patterns the code uses
range_contains(range, pattern) ==
    \/ range = pattern
    \/ pattern \in split_whitespace(range)
    \/ pattern = "Latin" /\ "Latin-1" \in split_whitespace(range)
    \/ pattern = "Forms" /\ "Forms-B" \in split_whitespace(range)

UNICODE_SECONDARY_RANGE_KEYWORD ==
    {"Supplement", "Extended", "Extensions", "Modifier", "Marks", "Punctuation",
     "Symbols", "Forms", "Operators", "Miscellaneous", "Drawing", "Block",
     "Shapes", "Supplemental"}

COMMON_SAFE_ASCII_CHARACTERS ==
    {32, 44, 59, 58, 33, 63, 46, 47, 45, 34, 39, 40, 41, 91, 93, 123, 125}

\* the general categories whose abbreviated name contains the letter
category_contains(category, letter) ==
    CASE letter = "P" -> category \in {"Pc", "Pd", "Ps", "Pe", "Pi", "Pf", "Po"}
      [] letter = "N" -> category \in {"Nd", "Nl", "No"}
      [] letter = "S" -> category \in {"Sm", "Sc", "Sk", "So"}
      [] letter = "Z" -> category \in {"Zs", "Zl", "Zp"}
      [] OTHER -> FALSE

in_category(category, range, categories_exact, categories_partial, ranges_partial) ==
    \/ category \in categories_exact
    \/ \E cp \in categories_partial : category_contains(category, cp)
    \/ range # "None" /\ \E r \in ranges_partial : range_contains(range, r)

in_description(name, patterns) == name \cap patterns # {}

\* --------------------------------------------------- md.rs: character flags
is_alphabetic(c) == GeneralCategory(c) \in {"Lu", "Ll", "Lt", "Lm", "Lo", "Nl"}

is_numeric(c) == GeneralCategory(c) \in {"Nd", "Nl", "No"}

is_lowercase(c) == GeneralCategory(c) = "Ll"

is_uppercase(c) == GeneralCategory(c) = "Lu"

AsciiFlags(c) ==
    IF c > 127 THEN {}
    ELSE {"ASCII"} \cup
         (IF ~is_ascii_graphic(c) THEN {}
          ELSE {"ASCII_GRAPHIC"} \cup
               (IF is_ascii_alphabetic(c) THEN {"ASCII_ALPHABETIC"}
                ELSE IF is_ascii_digit(c) THEN {"ASCII_DIGIT"} ELSE {}))

ClassFlags(c, ascii) ==
    LET category == GeneralCategory(c)
        range == unicode_range(c)
    IN  IF is_whitespace(c) THEN {"WHITESPACE", "SEPARATOR"}
        ELSE (IF c \in COMMON_SAFE_ASCII_CHARACTERS THEN {"COMMON_SAFE"} ELSE {})
             \cup (IF c \in {60, 62, 45, 61, 126, 124, 95} THEN {"WEIRD_SAFE"} ELSE {})
             \cup (IF "ASCII_DIGIT" \in ascii \/ is_numeric(c) THEN {"NUMERIC"}
                   ELSE IF "ASCII_ALPHABETIC" \in ascii \/ is_alphabetic(c)
                   THEN {"ALPHABETIC"} \cup
                        (IF is_lowercase(c) THEN {"LOWERCASE", "CASE_VARIABLE"}
                         ELSE IF is_uppercase(c) THEN {"UPPERCASE", "CASE_VARIABLE"}
                         ELSE {})
                   ELSE IF /\ "ASCII_GRAPHIC" \notin ascii
                           /\ c \notin {26, 65279}
                           /\ in_category(category, range, {"Cc"}, {}, {"Control character"})
                   THEN {"UNPRINTABLE"}
                   ELSE {})
             \cup (IF in_category(category, range, {}, {}, {"Emoticons"})
                   THEN {"EMOTICON"} ELSE {})
             \cup (IF \/ c \in {65372, 43, 60, 62}
                      \/ in_category(category, range, {"Po", "Pd", "Pc"}, {"Z"}, {})
                   THEN {"SEPARATOR"} ELSE {})

ScriptFlags(c) ==
    LET category == GeneralCategory(c)
        range == unicode_range(c)
        name == Name(c)
    IN  (IF in_category(category, range, {}, {"P"}, {"Punctuation"})
         THEN {"PUNCTUATION"} ELSE {})
        \cup (IF in_category(category, range, {}, {"N", "S"}, {"Forms"})
              THEN {"SYMBOL"} ELSE {})
        \cup (IF in_description(name, {"LATIN"}) THEN {"LATIN"}
              ELSE {f \in {"CJK", "HANGUL", "KATAKANA", "HIRAGANA", "THAI"} :
                      in_description(name, {f})})
        \cup (IF in_description(name, {"WITH GRAVE", "WITH ACUTE", "WITH CEDILLA",
                                       "WITH DIAERESIS", "WITH CIRCUMFLEX", "WITH TILDE"})
              THEN {"ACCENTUATED"} ELSE {})

new_mess_detector_character(character) ==
    [character |-> character,
     flags |-> AsciiFlags(character)
               \cup ClassFlags(character, AsciiFlags(character))
               \cup ScriptFlags(character),
     unicode_range |-> unicode_range(character)]

\* the #[cached] table of new_mess_detector_character
MessDetectorChar == [c \in CodePoints |-> new_mess_detector_character(c)]

is(character, flag) == flag \in character.flags

\* Option<MessDetectorChar>::None
NoChar == [character |-> 0 - 1, flags |-> {}, unicode_range |-> "None"]

\* num/den as a ratio in units of 1/Scale
Ratio(num, den) == (num * Scale) \div den

\* --------------------------------------------------- md.rs: the plugins
TooManySymbolOrPunctuationPlugin ==
    [punctuation_count |-> 0, symbol_count |-> 0, character_count |-> 0,
     last_printable_char |-> NoChar]

TooManySymbolOrPunctuation_feed(self, character) ==
    LET counted == /\ \/ self.last_printable_char = NoChar
                      \/ character.character # self.last_printable_char.character
                   /\ ~is(character, "COMMON_SAFE")
        punct == counted /\ is(character, "PUNCTUATION")
        symbol == /\ counted /\ ~punct
                  /\ ~is(character, "NUMERIC")
                  /\ is(character, "SYMBOL")
                  /\ ~is(character, "EMOTICON")
    IN  [punctuation_count |-> self.punctuation_count + (IF punct THEN 1 ELSE 0),
         symbol_count |-> self.symbol_count + (IF symbol THEN 2 ELSE 0),
         character_count |-> self.character_count + 1,
         last_printable_char |-> character]

TooManySymbolOrPunctuation_ratio(self) ==
    LET n == self.punctuation_count + self.symbol_count
    IN  IF self.character_count = 0 THEN 0
        ELSE IF n * 10 >= 3 * self.character_count
             THEN Ratio(n, self.character_count) ELSE 0

TooManyAccentuatedPlugin == [character_count |-> 0, accentuated_count |-> 0]

TooManyAccentuated_feed(self, character) ==
    [character_count |-> self.character_count + 1,
     accentuated_count |-> self.accentuated_count
                           + (IF is(character, "ACCENTUATED") THEN 1 ELSE 0)]

TooManyAccentuated_ratio(self) ==
    IF /\ self.character_count >= 8
       /\ self.accentuated_count * 100 >= 35 * self.character_count
    THEN Ratio(self.accentuated_count, self.character_count) ELSE 0

UnprintablePlugin == [character_count |-> 0, unprintable_count |-> 0]

Unprintable_feed(self, character) ==
    [character_count |-> self.character_count + 1,
     unprintable_count |-> self.unprintable_count
                           + (IF is(character, "UNPRINTABLE") THEN 1 ELSE 0)]

Unprintable_ratio(self) ==
    IF self.character_count = 0 THEN 0
    ELSE Ratio(self.unprintable_count * 8, self.character_count)

SuspiciousDuplicateAccentPlugin ==
    [character_count |-> 0, successive_count |-> 0, last_latin_character |-> NoChar]

SuspiciousDuplicateAccent_feed(self, character) ==
    LET last == self.last_latin_character
        both == /\ last # NoChar
                /\ is(character, "ACCENTUATED")
                /\ is(last, "ACCENTUATED")
        upper == both /\ is(character, "UPPERCASE") /\ is(last, "UPPERCASE")
        same == both /\ remove_accent(character.character) = remove_accent(last.character)
    IN  [character_count |-> self.character_count + 1,
         successive_count |-> self.successive_count
                              + (IF upper THEN 1 ELSE 0) + (IF same THEN 1 ELSE 0),
         last_latin_character |-> character]

SuspiciousDuplicateAccent_ratio(self) ==
    IF self.character_count = 0 THEN 0
    ELSE Ratio(self.successive_count * 2, self.character_count)

\* utils.rs: two Unicode ranges seen next to each other are suspicious
is_suspiciously_successive_range(range_a, range_b) ==
    LET both == {range_a, range_b}
        any(p) == \E x \in both : range_contains(x, p)
        all(p) == \A x \in both : range_contains(x, p)
        jp_ranges == {"Hiragana", "Katakana"}
        has_jp_a == range_a \in jp_ranges
        has_jp_b == range_b \in jp_ranges
        has_cjk == any("CJK")
        has_hangul == any("Hangul")
        has_punct_or_forms == any("Punctuation") \/ any("Forms")
        is_any_basic_latin == "Basic Latin" \in both
    IN  IF range_a = "None" \/ range_b = "None" THEN TRUE
        ELSE IF range_a = range_b \/ all("Latin") \/ any("Emoticons") THEN FALSE
        ELSE IF any("Latin") /\ any("Combining") THEN FALSE
        ELSE IF \E elem \in split_whitespace(range_a) \cap split_whitespace(range_b) :
                    elem \notin UNICODE_SECONDARY_RANGE_KEYWORD
             THEN FALSE
        ELSE IF \/ has_jp_a /\ has_jp_b
                \/ (has_jp_a \/ has_jp_b) /\ has_cjk
                \/ has_cjk /\ has_hangul
                \/ has_cjk /\ has_punct_or_forms
                \/ has_hangul /\ is_any_basic_latin
             THEN FALSE
        ELSE TRUE

SuspiciousRangePlugin ==
    [character_count |-> 0, suspicious_successive_range_count |-> 0,
     last_printable_char |-> NoChar]

SuspiciousRange_feed(self, character) ==
    LET counted == [self EXCEPT !.character_count = @ + 1]
    IN  IF \/ is(character, "WHITESPACE")
           \/ is(character, "PUNCTUATION")
           \/ is(character, "COMMON_SAFE")
        THEN [counted EXCEPT !.last_printable_char = NoChar]
        ELSE IF self.last_printable_char = NoChar
        THEN [counted EXCEPT !.last_printable_char = character]
        ELSE [counted EXCEPT
                !.suspicious_successive_range_count =
                    @ + (IF is_suspiciously_successive_range(
                                self.last_printable_char.unicode_range,
                                character.unicode_range)
                         THEN 1 ELSE 0),
                !.last_printable_char = character]

SuspiciousRange_ratio(self) ==
    IF /\ self.character_count > 0
       /\ self.suspicious_successive_range_count * 2 * 10 >= self.character_count
    THEN Ratio(self.suspicious_successive_range_count * 2, self.character_count)
    ELSE 0

SuperWeirdWordPlugin ==
    [character_count |-> 0, word_count |-> 0, bad_word_count |-> 0,
     foreign_long_count |-> 0, is_current_word_bad |-> FALSE,
     foreign_long_watch |-> FALSE, bad_character_count |-> 0,
     buffer_accent_count |-> 0, buffer |-> <<>>]

\* md.rs:505-554: a separator closes the buffered word
SuperWeirdWord_close(self) ==
    LET buffer_length == Len(self.buffer)
        last_char == self.buffer[buffer_length]
        accents == buffer_length >= 4
                   /\ self.buffer_accent_count * 100 > 34 * buffer_length
        upper_end == /\ buffer_length >= 4
                     /\ is(last_char, "ACCENTUATED")
                     /\ is(last_char, "UPPERCASE")
        uppercase_count ==
            Cardinality({i \in 1..buffer_length : is(self.buffer[i], "UPPERCASE")})
        probable_camel_cased ==
            uppercase_count > 0 /\ uppercase_count * 10 <= 3 * buffer_length
        foreign == /\ buffer_length >= 24
                   /\ self.foreign_long_watch
                   /\ ~probable_camel_cased
        bad == self.is_current_word_bad \/ accents \/ upper_end \/ foreign
    IN  [character_count |-> self.character_count + buffer_length,
         word_count |-> self.word_count + 1,
         bad_word_count |-> self.bad_word_count + (IF bad THEN 1 ELSE 0),
         foreign_long_count |-> self.foreign_long_count
                                + (IF upper_end THEN 1 ELSE 0)
                                + (IF foreign THEN 1 ELSE 0),
         is_current_word_bad |-> FALSE,
         foreign_long_watch |-> FALSE,
         bad_character_count |-> self.bad_character_count
                                 + (IF bad THEN buffer_length ELSE 0),
         buffer_accent_count |-> 0,
         buffer |-> <<>>]

SuperWeirdWord_feed(self, character) ==
    IF is(character, "ASCII_ALPHABETIC")
    THEN [self EXCEPT
            !.buffer = Append(@, character),
            !.buffer_accent_count = @ + (IF is(character, "ACCENTUATED") THEN 1 ELSE 0),
            !.foreign_long_watch =
                @ \/ /\ ~is(character, "LATIN") \/ is(character, "ACCENTUATED")
                     /\ character.flags
                        \cap {"CJK", "HANGUL", "KATAKANA", "HIRAGANA", "THAI"} = {}]
    ELSE IF self.buffer = <<>> THEN self
    ELSE IF \/ is(character, "WHITESPACE")
            \/ is(character, "PUNCTUATION")
            \/ is(character, "SEPARATOR")
    THEN SuperWeirdWord_close(self)
    ELSE IF /\ ~is(character, "WEIRD_SAFE")
            /\ ~is(character, "ASCII_DIGIT")
            /\ is(character, "SYMBOL")
    THEN [self EXCEPT !.is_current_word_bad = TRUE, !.buffer = Append(@, character)]
    ELSE self

SuperWeirdWord_ratio(self) ==
    IF self.word_count <= 10 /\ self.foreign_long_count = 0 THEN 0
    ELSE Ratio(self.bad_character_count, self.character_count)

CjkInvalidStopPlugin == [wrong_stop_count |-> 0, cjk_character_count |-> 0]

CjkInvalidStop_feed(self, character) ==
    IF character.character \in {19973, 19972}
    THEN [self EXCEPT !.wrong_stop_count = @ + 1]
    ELSE IF is(character, "CJK")
    THEN [self EXCEPT !.cjk_character_count = @ + 1]
    ELSE self

CjkInvalidStop_ratio(self) ==
    IF self.cjk_character_count < 16 THEN 0
    ELSE Ratio(self.wrong_stop_count, self.cjk_character_count)

ArchaicUpperLowerPlugin ==
    [buf |-> FALSE, current_ascii_only |-> TRUE,
     character_count_since_last_sep |-> 0,
     successive_upper_lower_count |-> 0,
     successive_upper_lower_count_final |-> 0,
     character_count |-> 0, last_alpha_seen |-> NoChar]

ArchaicUpperLower_feed(self, character) ==
    LET last == self.last_alpha_seen
        flipped == \/ is(character, "UPPERCASE") /\ is(last, "LOWERCASE")
                   \/ is(character, "LOWERCASE") /\ is(last, "UPPERCASE")
    IN  IF /\ ~(is(character, "ALPHABETIC") /\ is(character, "CASE_VARIABLE"))
           /\ self.character_count_since_last_sep > 0
        THEN [buf |-> FALSE, current_ascii_only |-> TRUE,
              character_count_since_last_sep |-> 0,
              successive_upper_lower_count |-> 0,
              successive_upper_lower_count_final |->
                  self.successive_upper_lower_count_final
                  + (IF /\ self.character_count_since_last_sep <= 64
                        /\ ~is(character, "ASCII_DIGIT")
                        /\ ~self.current_ascii_only
                     THEN self.successive_upper_lower_count ELSE 0),
              character_count |-> self.character_count + 1,
              last_alpha_seen |-> NoChar]
        ELSE [self EXCEPT
                !.current_ascii_only = @ /\ is(character, "ASCII"),
                !.buf = IF last = NoChar THEN @ ELSE flipped /\ ~@,
                !.successive_upper_lower_count =
                    @ + (IF last # NoChar /\ flipped /\ self.buf THEN 2 ELSE 0),
                !.character_count = @ + 1,
                !.character_count_since_last_sep = @ + 1,
                !.last_alpha_seen = character]

ArchaicUpperLower_ratio(self) ==
    IF self.character_count = 0 THEN 0
    ELSE Ratio(self.successive_upper_lower_count_final, self.character_count)

\* --------------------------------------------------- md.rs: mess_ratio
\* the plugin vector of md.rs:695-704
Detectors ==
    [symbol |-> TooManySymbolOrPunctuationPlugin,
     accentuated |-> TooManyAccentuatedPlugin,
     unprintable |-> UnprintablePlugin,
     range |-> SuspiciousRangePlugin,
     duplicate |-> SuspiciousDuplicateAccentPlugin,
     word |-> SuperWeirdWordPlugin,
     cjk |-> CjkInvalidStopPlugin,
     archaic |-> ArchaicUpperLowerPlugin]

\* md.rs:720-723: feed the character to every plugin it is eligible for
feed(detectors, mess_char) ==
    LET printable == ~is(mess_char, "UNPRINTABLE")
        alphabetic == is(mess_char, "ALPHABETIC")
    IN  [symbol |-> IF printable
                    THEN TooManySymbolOrPunctuation_feed(detectors.symbol, mess_char)
                    ELSE detectors.symbol,
         accentuated |-> IF alphabetic
                         THEN TooManyAccentuated_feed(detectors.accentuated, mess_char)
                         ELSE detectors.accentuated,
         unprintable |-> Unprintable_feed(detectors.unprintable, mess_char),
         range |-> IF printable
                   THEN SuspiciousRange_feed(detectors.range, mess_char)
                   ELSE detectors.range,
         duplicate |-> IF alphabetic /\ is(mess_char, "LATIN")
                       THEN SuspiciousDuplicateAccent_feed(detectors.duplicate, mess_char)
                       ELSE detectors.duplicate,
         word |-> SuperWeirdWord_feed(detectors.word, mess_char),
         cjk |-> CjkInvalidStop_feed(detectors.cjk, mess_char),
         archaic |-> ArchaicUpperLower_feed(detectors.archaic, mess_char)]

\* md.rs:728: detectors.iter().map(|x| x.ratio()).sum()
ratio(detectors) ==
    TooManySymbolOrPunctuation_ratio(detectors.symbol)
    + TooManyAccentuated_ratio(detectors.accentuated)
    + Unprintable_ratio(detectors.unprintable)
    + SuspiciousRange_ratio(detectors.range)
    + SuspiciousDuplicateAccent_ratio(detectors.duplicate)
    + SuperWeirdWord_ratio(detectors.word)
    + CjkInvalidStop_ratio(detectors.cjk)
    + ArchaicUpperLower_ratio(detectors.archaic)

intermediary_mean_mess_ratio_calc(length) ==
    IF length <= 510 THEN 32 ELSE IF length <= 1023 THEN 64 ELSE 128

\* the loop of md.rs:714-733 from character `index` on; the sequence is
\* followed by one '\n'
RECURSIVE mess_loop(_, _, _, _, _)
mess_loop(decoded_sequence, index, detectors, mean_mess_ratio, maximum_threshold) ==
    LET length == Len(decoded_sequence)
        ch == IF index < length THEN decoded_sequence[index + 1] ELSE 10
        fed == feed(detectors, MessDetectorChar[ch])
        measured == \/ index > 0
                       /\ index % intermediary_mean_mess_ratio_calc(length) = 0
                    \/ index = length
        current == ratio(fed)
    IN  IF index > length THEN mean_mess_ratio
        ELSE IF current >= maximum_threshold /\ measured THEN current
        ELSE mess_loop(decoded_sequence, index + 1, fed,
                       IF measured THEN current ELSE mean_mess_ratio,
                       maximum_threshold)

mess_ratio(decoded_sequence, maximum_threshold) ==
    mess_loop(decoded_sequence, 0, Detectors, 0, maximum_threshold)

\* ------------------------------------------- the decoders of the encoding crate
\* A decoding result: Ok(text), or Err(cause) with `text` what the decoder had
\* already written when it stopped.
Ok(text) == [ok |-> TRUE, text |-> text, cause |-> ""]

Err(cause, text) == [ok |-> FALSE, text |-> text, cause |-> cause]

\* The single-byte indexes, for the bytes of the model's inputs; every other
\* position is the Latin-1 one.
SingleByteIndex(encoding, byte) ==
    CASE byte < 128 -> byte
      [] encoding = "iso-8859-14" /\ byte = 254 -> 375
      [] encoding = "iso-8859-14" /\ byte = 187 -> 7776
      [] encoding = "iso-8859-14" /\ byte = 191 -> 7777
      [] encoding = "iso-8859-14" /\ byte = 240 -> 373
      [] encoding = "windows-1254" /\ byte = 254 -> 351
      [] encoding = "windows-1254" /\ byte = 240 -> 287
      [] OTHER -> byte

single_byte_decode(encoding, input) ==
    Ok([i \in 1..Len(input) |-> SingleByteIndex(encoding, input[i])])

\* UTF-8: the number of continuation bytes a lead byte asks for (0 - 1: none)
utf8_needed(lead) ==
    CASE lead < 128 -> 0
      [] lead >= 194 /\ lead <= 223 -> 1
      [] lead >= 224 /\ lead <= 239 -> 2
      [] lead >= 240 /\ lead <= 244 -> 3
      [] OTHER -> 0 - 1

\* the range of the first continuation byte
utf8_second_ok(lead, b) ==
    CASE lead = 224 -> b >= 160 /\ b <= 191
      [] lead = 237 -> b >= 128 /\ b <= 159
      [] lead = 240 -> b >= 144 /\ b <= 191
      [] lead = 244 -> b >= 128 /\ b <= 143
      [] OTHER -> b >= 128 /\ b <= 191

utf8_lead_bits(lead) ==
    CASE lead < 128 -> lead
      [] lead <= 223 -> lead - 192
      [] lead <= 239 -> lead - 224
      [] OTHER -> lead - 240

RECURSIVE utf8_value(_, _, _, _)
utf8_value(input, i, n, acc) ==
    IF n = 0 THEN acc ELSE utf8_value(input, i + 1, n - 1, acc * 64 + (input[i] - 128))

RECURSIVE utf8_decode(_, _, _)
utf8_decode(input, i, out) ==
    IF i > Len(input) THEN Ok(out)
    ELSE LET lead == input[i]
             n == utf8_needed(lead)
             have == Min(n, Len(input) - i)
             valid == \A k \in 1..have :
                         IF k = 1 THEN utf8_second_ok(lead, input[i + 1])
                         ELSE input[i + k] >= 128 /\ input[i + k] <= 191
         IN  IF n < 0 \/ ~valid THEN Err("invalid sequence", out)
             ELSE IF have < n THEN Err("incomplete sequence", out)
             ELSE utf8_decode(input, i + n + 1,
                              Append(out, utf8_value(input, i + 1, n, utf8_lead_bits(lead))))

\* UTF-16: one code unit, little or big endian
utf16_unit(encoding, input, i) ==
    IF encoding = "utf-16le" THEN input[i] + 256 * input[i + 1]
    ELSE 256 * input[i] + input[i + 1]

RECURSIVE utf16_decode(_, _, _, _)
utf16_decode(encoding, input, i, out) ==
    IF i > Len(input) THEN Ok(out)
    ELSE IF i + 1 > Len(input) THEN Err("incomplete sequence", out)
    ELSE LET unit == utf16_unit(encoding, input, i)
         IN  IF unit >= 56320 /\ unit <= 57343 THEN Err("invalid sequence", out)
             ELSE IF unit < 55296 \/ unit > 56319
             THEN utf16_decode(encoding, input, i + 2, Append(out, unit))
             ELSE IF i + 3 > Len(input) THEN Err("incomplete sequence", out)
             ELSE LET low == utf16_unit(encoding, input, i + 2)
                  IN  IF low < 56320 \/ low > 57343 THEN Err("invalid sequence", out)
                      ELSE utf16_decode(encoding, input, i + 4,
                                        Append(out, 65536 + (unit - 55296) * 1024
                                                          + (low - 56320)))

\* JIS X 0208, for the one byte pair the model's inputs can form in two-byte
\* mode (0 - 1: no character)
jis0208(lead, trail) == IF lead = 97 /\ trail = 97 THEN 30209 ELSE 0 - 1

\* the escape sequences of ISO-2022-JP: the mode they select ("": none)
iso2022jp_escape(b1, b2) ==
    CASE b1 = 36 /\ b2 \in {64, 66} -> "Lead"
      [] b1 = 40 /\ b2 \in {66, 74} -> "ASCII"
      [] b1 = 40 /\ b2 = 73 -> "Katakana"
      [] OTHER -> ""

RECURSIVE iso2022jp_decode(_, _, _, _)
iso2022jp_decode(input, i, mode, out) ==
    IF i > Len(input) THEN Ok(out)
    ELSE LET b == input[i]
         IN  IF b = 27
             THEN IF i + 2 > Len(input) THEN Err("incomplete sequence", out)
                  ELSE IF iso2022jp_escape(input[i + 1], input[i + 2]) = ""
                  THEN Err("invalid sequence", out)
                  ELSE iso2022jp_decode(input, i + 3,
                                        iso2022jp_escape(input[i + 1], input[i + 2]), out)
             ELSE IF mode = "ASCII"
             THEN IF b < 128 THEN iso2022jp_decode(input, i + 1, mode, Append(out, b))
                  ELSE Err("invalid sequence", out)
             ELSE IF mode = "Katakana"
             THEN IF b >= 33 /\ b <= 95
                  THEN iso2022jp_decode(input, i + 1, mode, Append(out, 65377 + b - 33))
                  ELSE Err("invalid sequence", out)
             ELSE IF b = 10 THEN iso2022jp_decode(input, i + 1, "ASCII", Append(out, b))
             ELSE IF b < 33 \/ b > 126 THEN Err("invalid sequence", out)
             ELSE IF i + 1 > Len(input) THEN Err("incomplete sequence", out)
             ELSE IF jis0208(b, input[i + 1]) < 0 THEN Err("invalid sequence", out)
             ELSE iso2022jp_decode(input, i + 2, mode,
                                   Append(out, jis0208(b, input[i + 1])))

\* ------------------------------------------------ labels and static tables
\* IANA_SUPPORTED (consts.rs): the registry, reduced to seven encodings kept
\* in the registry's order.
IANA_SUPPORTED ==
    <<"ascii", "iso-8859-14", "windows-1254", "iso-2022-jp",
      "utf-16be", "utf-16le", "utf-8">>

\* ENCODING_MARKS (consts.rs): the marks, a longer one before every shorter one
\* that is a prefix of it
ENCODING_MARKS ==
    <<[name |-> "utf-8", sig |-> <<239, 187, 191>>],
      [name |-> "utf-7", sig |-> <<43, 47, 118, 56, 45>>],
      [name |-> "utf-7", sig |-> <<43, 47, 118, 56>>],
      [name |-> "utf-7", sig |-> <<43, 47, 118, 57>>],
      [name |-> "utf-7", sig |-> <<43, 47, 118, 43>>],
      [name |-> "utf-7", sig |-> <<43, 47, 118, 47>>],
      [name |-> "utf-32be", sig |-> <<0, 0, 254, 255>>],
      [name |-> "utf-32le", sig |-> <<255, 254, 0, 0>>],
      [name |-> "gb18030", sig |-> <<132, 49, 149, 51>>],
      [name |-> "utf-16be", sig |-> <<254, 255>>],
      [name |-> "utf-16le", sig |-> <<255, 254>>]>>

\* IANA_SUPPORTED_SIMILAR (consts.rs), for the encodings of the reduced registry
IANA_SUPPORTED_SIMILAR ==
    [e \in Range(IANA_SUPPORTED) |->
        CASE e = "iso-8859-14" -> {"windows-1254"}
          [] e = "windows-1254" -> {"iso-8859-14"}
          [] OTHER -> {}]

\* str::to_ascii_lowercase, on the labels of the model
to_ascii_lowercase(label) ==
    CASE label \in {"ASCII", "Ascii"} -> "ascii"
      [] label \in {"US-ASCII", "Us-Ascii"} -> "us-ascii"
      [] label = "UTF-8" -> "utf-8"
      [] label = "WINDOWS-1252" -> "windows-1252"
      [] OTHER -> label

\* encoding_from_whatwg_label(label).whatwg_name() of the encoding crate
\* ("": no such label); the lookup ignores the letter case.  The WHATWG labels
\* "ascii" and "us-ascii" belong to windows-1252.
encoding_from_whatwg_label(label) ==
    CASE to_ascii_lowercase(label) \in {"utf8", "utf-8"} -> "utf-8"
      [] to_ascii_lowercase(label) \in {"l5", "latin5", "windows-1254"} -> "windows-1254"
      [] to_ascii_lowercase(label) \in {"ascii", "us-ascii", "windows-1252"} -> "windows-1252"
      [] to_ascii_lowercase(label) \in {"iso-8859-14", "iso-2022-jp", "utf-16be", "utf-16le"}
            -> to_ascii_lowercase(label)
      [] OTHER -> ""

\* utils.rs: iana_name ("" is None)
iana_name(cp_name) ==
    IF Contains(IANA_SUPPORTED, cp_name) THEN cp_name
    ELSE encoding_from_whatwg_label(cp_name)

is_multi_byte_encoding(name) ==
    name \in {"utf-8", "utf-16le", "utf-16be", "euc-jp", "euc-kr", "iso-2022-jp",
              "gbk", "gb18030", "hz", "big5", "shift_jis"}

is_cp_similar(iana_name_a, iana_name_b) ==
    /\ iana_name_a \in DOMAIN IANA_SUPPORTED_SIMILAR
    /\ iana_name_b \in IANA_SUPPORTED_SIMILAR[iana_name_a]

\* a variant of identify_sig_or_bom that keeps the last mark found
identify_last_sig_or_bom(sequence) ==
    LET found == {i \in 1..Len(ENCODING_MARKS) : starts_with(sequence, ENCODING_MARKS[i].sig)}
    IN  IF found = {} THEN [name |-> "", sig |-> <<>>]
        ELSE ENCODING_MARKS[CHOOSE i \in found : \A j \in found : i >= j]

\* utils.rs: identify_sig_or_bom; (None, None) is the mark with no name
identify_sig_or_bom(sequence) ==
    LET found == {i \in 1..Len(ENCODING_MARKS) : starts_with(sequence, ENCODING_MARKS[i].sig)}
    IN  IF found = {} THEN [name |-> "", sig |-> <<>>]
        ELSE ENCODING_MARKS[CHOOSE i \in found : \A j \in found : i <= j]

\* utils.rs: decode_to with DecoderTrap::Strict, through the decoder that
\* encoding_from_whatwg_label gives for the name
decode_to(encoder, input) ==
    CASE encoder = "utf-8" -> utf8_decode(input, 1, <<>>)
      [] encoder \in {"utf-16le", "utf-16be"} -> utf16_decode(encoder, input, 1, <<>>)
      [] encoder = "iso-2022-jp" -> iso2022jp_decode(input, 1, "ASCII", <<>>)
      [] OTHER -> single_byte_decode(encoder, input)

\* utils.rs:371-395, the loop of decode from the offsets on; buf is what the
\* earlier rounds have written
RECURSIVE decode_loop(_, _, _, _, _, _)

\* a variant of decode_stops that gives up one byte later at the start
decode_stops_late(begin, end, chunk_len) ==
    end - begin < 1 \/ begin > 4 \/ chunk_len - end > 3

\* utils.rs:390: the window is empty or more than 3 bytes went on one side
decode_stops(begin, end, chunk_len) ==
    end - begin < 1 \/ begin > 3 \/ chunk_len - end > 3

\* utils.rs:376-394, what the loop does with the result of one round
decode_round(input, from_encoding, is_chunk, begin_offset, end_offset, written, res) ==
    LET begin == begin_offset + (IF res.cause = "invalid sequence" THEN 1 ELSE 0)
        end == end_offset - (IF res.cause = "incomplete sequence" THEN 1 ELSE 0)
    IN  IF ~is_chunk \/ res.ok \/ ~is_multi_byte_encoding(from_encoding)
        THEN [res EXCEPT !.text = written]
        ELSE IF decode_stops(begin, end, Len(input))
        THEN [res EXCEPT !.text = written]
        ELSE decode_loop(input, from_encoding, is_chunk, begin, end, written)

\* utils.rs:372-375, one round: decode_to appends to buf
decode_written(input, from_encoding, is_chunk, begin_offset, end_offset, buf, res) ==
    decode_round(input, from_encoding, is_chunk, begin_offset, end_offset,
                 buf \o res.text, res)

decode_loop(input, from_encoding, is_chunk, begin_offset, end_offset, buf) ==
    decode_written(input, from_encoding, is_chunk, begin_offset, end_offset, buf,
                   decode_to(encoding_from_whatwg_label(from_encoding),
                             Slice(input, begin_offset, end_offset)))

\* utils.rs:396-399: the error, or the buffer (empty under only_test)
decode_result(res, only_test) ==
    IF ~res.ok THEN Err(res.cause, <<>>)
    ELSE IF only_test THEN Ok(<<>>) ELSE Ok(res.text)

\* utils.rs: decode(input, from_encoding, DecoderTrap::Strict, only_test, is_chunk)
decode(input, from_encoding, only_test, is_chunk) ==
    decode_result(decode_loop(input, from_encoding, is_chunk, 0, Len(input), <<>>),
                  only_test)

\* utils.rs: is_invalid_chunk (imported by lib.rs:139)
is_invalid_chunk(decoded_chunk_result, encoding_iana) ==
    \/ ~decoded_chunk_result.ok
    \/ encoding_iana = "ascii" /\ \E i \in 1..Len(decoded_chunk_result.text) :
                                     decoded_chunk_result.text[i] > 127

\* The labels that the model's hints spell, as bytes.
LabelBytes ==
    [utf8 |-> <<117, 116, 102, 56>>,
     l5 |-> <<108, 53>>,
     ascii |-> <<97, 115, 99, 105, 105>>,
     ASCII |-> <<65, 83, 67, 73, 73>>]
    @@ ("us-ascii" :> <<117, 115, 45, 97, 115, 99, 105, 105>>)
    @@ ("US-ASCII" :> <<85, 83, 45, 65, 83, 67, 73, 73>>)
    @@ ("UTF-8" :> <<85, 84, 70, 45, 56>>)
    @@ ("windows-1252" :> <<119, 105, 110, 100, 111, 119, 115, 45, 49, 50, 53, 50>>)

\* the &str of a captured label ("?": a label no table knows)
LabelOf(captured) ==
    IF \E l \in DOMAIN LabelBytes : LabelBytes[l] = captured
    THEN CHOOSE l \in DOMAIN LabelBytes : LabelBytes[l] = captured
    ELSE "?"

IsLabelByte(b) ==
    \/ b >= 48 /\ b <= 57
    \/ b >= 65 /\ b <= 90
    \/ b >= 97 /\ b <= 122
    \/ b \in {45, 95}

\* RE_POSSIBLE_ENCODING_INDICATION (consts.rs) at position i of the text: the
\* keyword "coding", one to ten of ':', '=', ' ', an optional quote, and the
\* longest run of label characters, which is the capture (<<>>: no match)
RE_POSSIBLE_ENCODING_INDICATION(text, i) ==
    LET n == Len(text)
        after == i + 6
        seps == {k \in 1..10 : \A j \in 0..(k - 1) :
                    after + j <= n /\ text[after + j] \in {58, 61, 32}}
        sep == IF seps = {} THEN 0 ELSE CHOOSE k \in seps : \A j \in seps : j <= k
        quoted == after + sep <= n /\ text[after + sep] \in {34, 39}
        start == after + sep + (IF quoted THEN 1 ELSE 0)
        runs == {k \in 1..(n - start + 1) : \A j \in 0..(k - 1) : IsLabelByte(text[start + j])}
        run == IF runs = {} THEN 0 ELSE CHOOSE k \in runs : \A j \in runs : j <= k
    IN  IF /\ i + 5 <= n
           /\ SubSeq(text, i, i + 5) = <<99, 111, 100, 105, 110, 103>>
           /\ sep > 0
           /\ run > 0
        THEN SubSeq(text, start, start + run - 1)
        ELSE <<>>

\* utils.rs: any_specified_encoding ("" is None)
any_specified_encoding(sequence, search_zone) ==
    LET test_string == SelectSeq(Slice(sequence, 0, Min(search_zone, Len(sequence))),
                                 LAMBDA b : b < 128)
        resolved == {i \in 1..Len(test_string) :
                        /\ RE_POSSIBLE_ENCODING_INDICATION(test_string, i) # <<>>
                        /\ iana_name(LabelOf(RE_POSSIBLE_ENCODING_INDICATION(test_string, i))) # ""}
    IN  IF resolved = {} THEN ""
        ELSE iana_name(LabelOf(RE_POSSIBLE_ENCODING_INDICATION(
                 test_string, CHOOSE i \in resolved : \A j \in resolved : i <= j)))

\* ------------------------------------------------------ entity.rs: matches
\* Option<String>: a decoded payload
None == [some |-> FALSE, text |-> <<>>]

Some(text) == [some |-> TRUE, text |-> text]

strip_prefix_bom(text) ==
    IF text # <<>> /\ Head(text) = 65279 THEN Tail(text) ELSE text

\* entity.rs:163-174: the payload decoded, without its byte order mark
decoded_or_none(res) ==
    IF res.ok THEN Some(strip_prefix_bom(res.text)) ELSE None

\* entity.rs:151-186.  The fingerprint is the hash of the decoded payload and
\* is modelled by the payload itself.
CharsetMatch_of(payload, encoding, mean_mess_ratio, has_sig_or_bom, coherence_matches, decoded) ==
    [payload |-> payload,
     encoding |-> encoding,
     mean_mess_ratio |-> mean_mess_ratio,
     coherence_matches |-> coherence_matches,
     has_sig_or_bom |-> has_sig_or_bom,
     fingerprint |-> decoded,
     submatch |-> <<>>,
     decoded_payload |-> decoded]

\* CharsetMatch::new
CharsetMatch_new(payload, encoding, mean_mess_ratio, has_sig_or_bom, coherence_matches, decoded) ==
    CharsetMatch_of(payload, encoding, mean_mess_ratio, has_sig_or_bom,
                    coherence_matches,
                    IF decoded.some THEN decoded
                    ELSE decoded_or_none(decode(payload, encoding, FALSE, TRUE)))

\* CharsetMatch::default() (entity.rs, not in src/): what from_bytes returns
\* for empty input
CharsetMatch_default ==
    [payload |-> <<>>,
     encoding |-> "utf-8",
     mean_mess_ratio |-> 0,
     coherence_matches |-> <<>>,
     has_sig_or_bom |-> FALSE,
     fingerprint |-> Some(<<>>),
     submatch |-> <<>>,
     decoded_payload |-> Some(<<>>)]

\* coherence(): the best score of the coherence matches, 0 without any
coherence(m) ==
    IF m.coherence_matches = <<>> THEN 0
    ELSE CHOOSE c \in Range(m.coherence_matches) :
            \A d \in Range(m.coherence_matches) : d <= c

multi_byte_usage(m) ==
    LET chars == Len(m.decoded_payload.text)
        raw == Len(m.payload)
    IN  IF raw = 0 THEN 0 ELSE Scale - Ratio(chars, raw)

Abs(x) == IF x < 0 THEN 0 - x ELSE x

\* f32::partial_cmp
cmp(a, b) == IF a < b THEN "Less" ELSE IF a > b THEN "Greater" ELSE "Equal"

\* impl PartialOrd for CharsetMatch
partial_cmp(self, other) ==
    LET mess_difference == Abs(self.mean_mess_ratio - other.mean_mess_ratio)
        coherence_a == coherence(self)
        coherence_b == coherence(other)
        coherence_difference == Abs(coherence_a - coherence_b)
    IN  IF mess_difference * 100 < Scale /\ coherence_difference * 100 > 2 * Scale
        THEN IF mess_difference = 0 /\ coherence_difference = 0
             THEN cmp(multi_byte_usage(other), multi_byte_usage(self))
             ELSE cmp(coherence_b, coherence_a)
        ELSE cmp(self.mean_mess_ratio, other.mean_mess_ratio)

suitable_encodings(m) ==
    <<m.encoding>> \o [i \in 1..Len(m.submatch) |-> m.submatch[i].encoding]

\* self <= other in the order of partial_cmp
precedes(self, other) == partial_cmp(self, other) # "Greater"

\* whether partial_cmp is a total order on the items: sort_unstable_by
\* promises a sorted slice only then
is_total_order(items) ==
    \A i, j, k \in 1..Len(items) :
        precedes(items[i], items[j]) /\ precedes(items[j], items[k])
            => precedes(items[i], items[k])

is_sorted(items) ==
    \A i, j \in 1..Len(items) : i < j => precedes(items[i], items[j])

InsertAt(items, item, k) ==
    SubSeq(items, 1, k - 1) \o <<item>> \o SubSeq(items, k, Len(items))

\* whether the item can stand at place k of an arrangement that stays sorted
fits(arranged, item, k) ==
    /\ \A i \in 1..(k - 1) : precedes(arranged[i], item)
    /\ \A i \in k..Len(arranged) : precedes(item, arranged[i])

\* the rearrangements of a slice, all of them or the sorted ones
RECURSIVE arrangements(_, _)
arrangements(items, sorted_only) ==
    IF items = <<>> THEN {<<>>}
    ELSE UNION {{InsertAt(arranged, items[Len(items)], k) : k \in
                    {k \in 1..(Len(arranged) + 1) :
                        sorted_only => fits(arranged, items[Len(items)], k)}} :
                arranged \in arrangements(SubSeq(items, 1, Len(items) - 1), sorted_only)}

\* slice::sort_unstable_by(|a, b| a.partial_cmp(b).unwrap()): any sorted
\* rearrangement (the order of equal items is open); when the comparison is
\* not a total order the resulting order is unspecified
sort_unstable_by(items) == arrangements(items, is_total_order(items))

\* CharsetMatches::resort
resort(items) == sort_unstable_by(items)

\* a mutation: the size of the payload is not looked at
append_any_size(items, item) ==
    LET twins == {i \in 1..Len(items) :
                    /\ items[i].fingerprint = item.fingerprint
                    /\ items[i].mean_mess_ratio = item.mean_mess_ratio}
        first == CHOOSE i \in twins : \A j \in twins : i <= j
    IN  IF twins # {}
        THEN {[items EXCEPT ![first].submatch = Append(@, item)]}
        ELSE resort(Append(items, item))

\* CharsetMatches::append: the set of containers it can leave
append(items, item) ==
    LET twins == {i \in 1..Len(items) :
                    /\ items[i].fingerprint = item.fingerprint
                    /\ items[i].mean_mess_ratio = item.mean_mess_ratio}
        first == CHOOSE i \in twins : \A j \in twins : i <= j
    IN  IF Len(item.payload) <= TOO_BIG_SEQUENCE /\ twins # {}
        THEN {[items EXCEPT ![first].submatch = Append(@, item)]}
        ELSE resort(Append(items, item))

\* CharsetMatches::get_by_encoding (None when no item has the encoding)
get_by_encoding(items, encoding) ==
    LET found == {i \in 1..Len(items) :
                    Contains(suitable_encodings(items[i]), iana_name(encoding))}
    IN  IF iana_name(encoding) = "" \/ found = {} THEN None
        ELSE [some |-> TRUE, text |-> <<>>,
              item |-> items[CHOOSE i \in found : \A j \in found : i <= j]]

\* CharsetMatches::from_single (entity.rs, not in src/)
from_single(item) == <<item>>

\* CharsetMatches::get_best
get_best(items) == IF items = <<>> THEN None ELSE [some |-> TRUE, text |-> <<>>, item |-> items[1]]

\* NormalizerSettings::default()
DefaultSettings ==
    [steps |-> 5, chunk_size |-> 512, threshold |-> Scale \div 5,
     include_encodings |-> <<>>, exclude_encodings |-> <<>>,
     preemptive_behaviour |-> TRUE,
     language_threshold |-> Scale \div 10,
     enable_fallback |-> TRUE]

\* ------------------------------------------------------------- the inputs
\* The leading bytes of an input: nothing, a byte order mark, the escape
\* sequence of ISO-2022-JP that selects JIS X 0208, or U+00E9 in UTF-8
\* between two control characters.
Prefixes ==
    {<<>>, <<239, 187, 191>>, <<255, 254>>, <<254, 255>>, <<27, 36, 64>>,
     <<1, 195, 169, 1>>, <<239, 187, 191, 239, 187, 191>>}

BodyBytes == {1, 97, 254}

Bodies == UNION {[1..n -> BodyBytes] : n \in 0..MaxBody}

\* "coding:utf8" and "coding:l5"
Hints ==
    {<<>>,
     <<99, 111, 100, 105, 110, 103, 58>> \o LabelBytes.utf8,
     <<99, 111, 100, 105, 110, 103, 58>> \o LabelBytes.l5}

\* Leading bytes, a body, a declarative hint; the hints come with inputs that
\* start with the body and with inputs that start with the utf-8 mark.
Inputs ==
    {sig \o body \o hint : <<sig, body, hint>> \in
        {t \in Prefixes \X Bodies \X Hints :
            t[3] = <<>> \/ t[1] \in {<<>>, <<239, 187, 191>>}}}

\* The settings a caller passes: the default ones and the ones that differ
\* from them in one field.
SettingsValues ==
    {DefaultSettings,
     [DefaultSettings EXCEPT !.steps = 2, !.chunk_size = 1],
     [DefaultSettings EXCEPT !.steps = 0, !.chunk_size = 1],
     [DefaultSettings EXCEPT !.threshold = Scale],
     [DefaultSettings EXCEPT !.include_encodings = <<"utf8">>],
     [DefaultSettings EXCEPT !.include_encodings = <<"ascii">>],
     [DefaultSettings EXCEPT !.include_encodings = <<"utf8", "whatever">>],
     [DefaultSettings EXCEPT !.exclude_encodings = <<"ascii">>],
     [DefaultSettings EXCEPT !.exclude_encodings = <<"utf8">>],
     [DefaultSettings EXCEPT !.exclude_encodings = <<"utf-57", "ascii">>],
     [DefaultSettings EXCEPT !.preemptive_behaviour = FALSE],
     [DefaultSettings EXCEPT !.enable_fallback = FALSE],
     [DefaultSettings EXCEPT !.enable_fallback = FALSE, !.steps = 2, !.chunk_size = 1]}

\* --------------------------------------------------------------- the state
VARIABLES
    bytes,                    \* the input of from_bytes
    trace_enabled,            \* whether the log crate's trace level is enabled
    given,                    \* the settings as the caller passed them
    settings,                 \* the local `settings` of from_bytes
    pc,                       \* "start", "normalized", "probing", "measured",
                              \* "returned", "panicked"
    panic_line,               \* the line of lib.rs that panicked, 0 if none
    specified_encoding,
    sig_encoding,
    sig_payload,
    prioritized_encodings,
    iana_encodings,           \* the candidates the loop has still to visit
    tested_but_hard_failure,
    tested_but_soft_failure,
    fallback_ascii,
    fallback_u8,
    fallback_specified,
    decoded_payload,          \* the locals of the loop body, from the last
    early_stop_count,         \* candidate that reached the chunks loop
    lazy_str_hard_failure,
    md_ratios,
    results,
    ret,                      \* the container from_bytes returned
    probed,                   \* history: the candidates that reached the fast check
    passed,                   \* history: the candidates appended to results
    fallback                  \* history: the fallback match the last step appended

main_vars ==
    <<bytes, trace_enabled, given, settings, pc, panic_line, specified_encoding, sig_encoding,
      sig_payload, prioritized_encodings, iana_encodings, tested_but_hard_failure,
      tested_but_soft_failure, fallback_ascii, fallback_u8, fallback_specified,
      decoded_payload, early_stop_count, lazy_str_hard_failure, md_ratios,
      results, ret, probed, passed, fallback>>

input_vars == <<bytes, trace_enabled, given>>

chunk_vars == <<decoded_payload, early_stop_count, lazy_str_hard_failure, md_ratios>>

order_vars == <<specified_encoding, sig_encoding, sig_payload, prioritized_encodings>>

failure_vars == <<tested_but_hard_failure, tested_but_soft_failure>>

fallback_vars == <<fallback_ascii, fallback_u8, fallback_specified>>

\* The state of the other entry points of the crate, each exercised on its own.
VARIABLES
    items,                    \* CharsetMatches: the items of the container
    appended,                 \* history: the last item handed to append
    sort_panicked,            \* whether sort_unstable_by panicked
    decoded_sequence,         \* mess_ratio: its arguments and what it returned
    maximum_threshold,
    mess_ret,
    input,                    \* decode: its arguments,
    from_encoding,
    only_test,
    is_chunk,
    begin_offset,             \* its locals,
    end_offset,
    buf,
    err,
    error_occured,
    rounds,                   \* history: the calls of decode_to,
    decode_pc,                \* "idle", "loop", "returned"
    decode_ret,               \* and what it returned
    cp_name,                  \* iana_name: its argument and what it returned
    iana_ret,
    sequence,                 \* identify_sig_or_bom and any_specified_encoding:
    sig_ret,                  \* their argument and what they returned
    hint_ret,
    args,                     \* normalizer: the parsed command line,
    readable,                 \* the files that can be read,
    cli_pc,                   \* "idle", "parsed", "files", "exited"
    file_index,               \* the file the loop is at,
    files_read,               \* history: the files opened for reading,
    writable,                 \* the files whose output can be created,
    files_written,            \* history: the files created,
    exit_code                 \* and the exit code of the process

container_vars == <<items, appended, sort_panicked>>

mess_vars == <<decoded_sequence, maximum_threshold, mess_ret>>

decode_vars ==
    <<input, from_encoding, only_test, is_chunk, begin_offset, end_offset, buf, err,
      error_occured, rounds, decode_pc, decode_ret>>

label_vars == <<cp_name, iana_ret, sequence, sig_ret, hint_ret>>

cli_vars ==
    <<args, readable, writable, cli_pc, file_index, files_read, files_written, exit_code>>

\* what from_bytes does not touch
unit_vars == <<container_vars, mess_vars, decode_vars, label_vars, cli_vars>>

\* an Option that is None
Unset == [some |-> FALSE]

ContainerIdle == items = <<>> /\ appended = Unset /\ sort_panicked = FALSE

MessIdle == decoded_sequence = <<>> /\ maximum_threshold = 0 /\ mess_ret = Unset

DecodeIdle ==
    /\ input = <<>>
    /\ from_encoding = ""
    /\ only_test = FALSE
    /\ is_chunk = FALSE
    /\ begin_offset = 0
    /\ end_offset = 0
    /\ buf = <<>>
    /\ err = ""
    /\ error_occured = FALSE
    /\ rounds = 0
    /\ decode_pc = "idle"
    /\ decode_ret = Unset

LabelIdle ==
    /\ cp_name = ""
    /\ iana_ret = Unset
    /\ sequence = <<>>
    /\ sig_ret = Unset
    /\ hint_ret = Unset

CliIdle ==
    /\ args = Unset
    /\ readable = {}
    /\ writable = {}
    /\ cli_pc = "idle"
    /\ file_index = 0
    /\ files_read = <<>>
    /\ files_written = <<>>
    /\ exit_code = -1

\* The state of further functions of the crate, each exercised on its own.
VARIABLES
    cd_layers,                \* coherence_ratio: the layers of the text, each with
                              \* its languages and their ratios,
    layer_index,              \* the layer and the language the loops are at,
    language_index,
    cd_results,               \* its locals,
    sufficient_match_count,
    cd_pc,                    \* "idle", "layers", "languages", "returned"
    cd_ret,                   \* and what it returned
    subject,                  \* most_probably_language: the match and the result
    language_ret,
    plugin,                   \* ArchaicUpperLowerPlugin: its fields,
    fed,                      \* history: the characters fed to it
    split_text,               \* alpha_unicode_split: its argument, the map,
    split_layers,
    split_index,              \* the character the loop is at,
    split_ret                 \* and what it returned

coherence_vars ==
    <<cd_layers, layer_index, language_index, cd_results, sufficient_match_count, cd_pc,
      cd_ret>>

language_vars == <<subject, language_ret>>

archaic_vars == <<plugin, fed>>

split_vars == <<split_text, split_layers, split_index, split_ret>>

more_vars == <<coherence_vars, language_vars, archaic_vars, split_vars>>

FirstIdle == ContainerIdle /\ MessIdle /\ DecodeIdle /\ LabelIdle /\ CliIdle

CoherenceIdle ==
    /\ cd_layers = <<>>
    /\ layer_index = 0
    /\ language_index = 0
    /\ cd_results = <<>>
    /\ sufficient_match_count = 0
    /\ cd_pc = "idle"
    /\ cd_ret = Unset

LanguageIdle == subject = Unset /\ language_ret = Unset

ArchaicIdle == plugin = Unset /\ fed = <<>>

SplitIdle ==
    /\ split_text = <<>>
    /\ split_layers = <<>>
    /\ split_index = 0
    /\ split_ret = Unset

MoreIdle == CoherenceIdle /\ LanguageIdle /\ ArchaicIdle /\ SplitIdle

vars == <<main_vars, unit_vars, more_vars>>

Init ==
    /\ MoreIdle
    /\ bytes \in Inputs
    /\ trace_enabled \in BOOLEAN
    /\ given \in SettingsValues
    /\ settings = given
    /\ pc = "start"
    /\ panic_line = 0
    /\ specified_encoding = ""
    /\ sig_encoding = ""
    /\ sig_payload = <<>>
    /\ prioritized_encodings = <<>>
    /\ iana_encodings = <<>>
    /\ tested_but_hard_failure = <<>>
    /\ tested_but_soft_failure = <<>>
    /\ fallback_ascii = None
    /\ fallback_u8 = None
    /\ fallback_specified = None
    /\ decoded_payload = None
    /\ early_stop_count = 0
    /\ lazy_str_hard_failure = FALSE
    /\ md_ratios = <<>>
    /\ results = <<>>
    /\ ret = <<>>
    /\ probed = <<>>
    /\ passed = <<>>
    /\ fallback = None
    /\ ContainerIdle
    /\ MessIdle
    /\ DecodeIdle
    /\ LabelIdle
    /\ CliIdle

\* ---------------------------------------------- lib.rs:177-200, the labels
\* .map(|e| iana_name(e).unwrap().to_string()).collect()
normalize(labels) == [i \in 1..Len(labels) |-> iana_name(labels[i])]

resolves(labels) == \A i \in 1..Len(labels) : iana_name(labels[i]) # ""

NormalizeSettings ==
    /\ pc = "start"
    /\ resolves(settings.include_encodings)
    /\ resolves(settings.exclude_encodings)
    /\ settings' = [settings EXCEPT
                      !.include_encodings = normalize(@),
                      !.exclude_encodings = normalize(@)]
    /\ pc' = "normalized"
    /\ UNCHANGED <<unit_vars, more_vars, input_vars, panic_line, order_vars, iana_encodings, failure_vars,
                   fallback_vars, chunk_vars, results, ret, probed, passed, fallback>>

\* iana_name(e).unwrap() on a label that no table knows
NormalizePanic ==
    /\ pc = "start"
    /\ ~resolves(settings.include_encodings) \/ ~resolves(settings.exclude_encodings)
    /\ pc' = "panicked"
    /\ panic_line' = IF ~resolves(settings.include_encodings) THEN 181 ELSE 193
    /\ UNCHANGED <<unit_vars, more_vars, input_vars, settings, order_vars, iana_encodings, failure_vars,
                   fallback_vars, chunk_vars, results, ret, probed, passed, fallback>>

\* ------------------------------------------- lib.rs:203-207, empty input
EmptyInput ==
    /\ pc = "normalized"
    /\ Len(bytes) = 0
    /\ ret' = from_single(CharsetMatch_default)
    /\ pc' = "returned"
    /\ UNCHANGED <<unit_vars, more_vars, input_vars, settings, panic_line, order_vars, iana_encodings,
                   failure_vars, fallback_vars, chunk_vars, results, probed, passed,
                   fallback>>

\* ------------------------- lib.rs:209-288, chunking and the candidate order
clamp(s, bytes_length) ==
    LET collapsed == IF bytes_length <= s.chunk_size * s.steps
                     THEN [s EXCEPT !.steps = 1, !.chunk_size = bytes_length]
                     ELSE s
    IN  IF collapsed.steps > 1 /\ bytes_length \div collapsed.steps < collapsed.chunk_size
        THEN [collapsed EXCEPT !.chunk_size = bytes_length \div collapsed.steps]
        ELSE collapsed

move_to_front(queue, pe) ==
    IF Contains(queue, pe)
    THEN <<pe>> \o SelectSeq(queue, LAMBDA x : x # pe)
    ELSE queue

\* a mutation: prioritized_encodings.iter() without rev()
RECURSIVE prioritize_forward(_, _)
prioritize_forward(queue, prioritized) ==
    IF prioritized = <<>> THEN queue
    ELSE prioritize_forward(move_to_front(queue, Head(prioritized)), Tail(prioritized))

\* for pe in prioritized_encodings.iter().rev(): the last one moves first
RECURSIVE prioritize(_, _)
prioritize(queue, prioritized) ==
    IF prioritized = <<>> THEN queue
    ELSE move_to_front(prioritize(queue, Tail(prioritized)), Head(prioritized))

\* a mutation: utf-8 is pushed before ascii
prioritized_utf8_first(hint, sig) ==
    (IF hint # "" THEN <<hint>> ELSE <<>>)
    \o (IF sig # "" THEN <<sig>> ELSE <<>>)
    \o <<"utf-8", "ascii">>

\* lib.rs:243-268: the declared encoding, the encoding of the mark, ascii, utf-8
prioritized_of(hint, sig) ==
    (IF hint # "" THEN <<hint>> ELSE <<>>)
    \o (IF sig # "" THEN <<sig>> ELSE <<>>)
    \o <<"ascii", "utf-8">>

Prepare ==
    /\ pc = "normalized"
    /\ Len(bytes) # 0
    /\ LET hint == IF settings.preemptive_behaviour
                   THEN any_specified_encoding(bytes, 4096) ELSE ""
           mark == identify_sig_or_bom(bytes)
           prioritized == prioritized_of(hint, mark.name)
       IN  /\ specified_encoding' = hint
           /\ sig_encoding' = mark.name
           /\ sig_payload' = mark.sig
           /\ prioritized_encodings' = prioritized
           /\ iana_encodings' = prioritize(IANA_SUPPORTED, prioritized)
    /\ settings' = clamp(settings, Len(bytes))
    /\ pc' = "probing"
    /\ UNCHANGED <<unit_vars, more_vars, input_vars, panic_line, failure_vars, fallback_vars, chunk_vars,
                   results, ret, probed, passed, fallback>>

\* ------------------------------- lib.rs:291-542, the loop over candidates
encoding_iana == Head(iana_encodings)

\* a mutation: the exclusion list is not looked at
is_filtered_by_inclusion(e) ==
    /\ settings.include_encodings # <<>>
    /\ ~Contains(settings.include_encodings, e)

\* lib.rs:292-299
is_filtered(e) ==
    \/ /\ settings.include_encodings # <<>>
       /\ ~Contains(settings.include_encodings, e)
    \/ Contains(settings.exclude_encodings, e)

bom_or_sig_available(e) == sig_encoding = e

\* a mutation: utf-16be is missing from the list
requires_bom_le_only(e) == ~bom_or_sig_available(e) /\ e \in {"utf-16le"}

\* lib.rs:307
requires_bom(e) == ~bom_or_sig_available(e) /\ e \in {"utf-16le", "utf-16be"}

is_too_large_sequence == Len(bytes) > TOO_BIG_SEQUENCE

start_idx(e) == IF bom_or_sig_available(e) THEN Len(sig_payload) ELSE 0

end_idx(e) ==
    IF is_too_large_sequence /\ ~is_multi_byte_encoding(e)
    THEN MAX_PROCESSED_BYTES ELSE Len(bytes)

\* lib.rs:324-330, the fast pre-check
fast_check(e) ==
    decode(Slice(bytes, start_idx(e), end_idx(e)), e,
           is_too_large_sequence /\ ~is_multi_byte_encoding(e), FALSE)

\* lib.rs:331
then_some_payload(e, payload) ==
    IF ~is_too_large_sequence \/ is_multi_byte_encoding(e)
    THEN Some(payload) ELSE None

\* lib.rs:343-351
is_similar_to_soft_failure(e) ==
    \E i \in 1..Len(tested_but_soft_failure) : is_cp_similar(e, tested_but_soft_failure[i])

max_chunk_gave_up == Max(2, settings.steps \div 4)

seq_len(payload) == IF payload.some THEN Len(payload.text) ELSE Len(bytes)

starting_offset(e, payload) ==
    IF bom_or_sig_available(e) /\ ~payload.some THEN start_idx(e) ELSE 0

\* lib.rs:387-402, the chunk at an offset: characters of the payload, or
\* bytes of the input decoded
decoded_chunk_result(e, payload, offset) ==
    IF payload.some
    THEN Ok(SubSeq(payload.text, offset + 1,
                   Min(offset + settings.chunk_size, Len(payload.text))))
    ELSE decode(Slice(bytes, offset, Min(offset + settings.chunk_size, seq_len(payload))),
                e, FALSE, FALSE)

\* lib.rs:386-429, the chunks loop from an offset on
RECURSIVE chunks_loop(_, _, _, _, _)

\* lib.rs:421-428, after the mess ratio of the chunk is known
chunk_measured(e, payload, offset, count, ratios, measured) ==
    LET stops == count + (IF measured >= settings.threshold THEN 1 ELSE 0)
    IN  IF stops >= max_chunk_gave_up
        THEN [early_stop_count |-> stops, lazy_str_hard_failure |-> FALSE,
              md_ratios |-> Append(ratios, measured)]
        ELSE chunks_loop(e, payload,
                         offset + Max(seq_len(payload) \div settings.steps, 1),
                         stops, Append(ratios, measured))

\* lib.rs:404-420, after the chunk is decoded
chunk_decoded(e, payload, offset, count, ratios, chunk) ==
    IF is_invalid_chunk(chunk, e)
    THEN [early_stop_count |-> max_chunk_gave_up, lazy_str_hard_failure |-> TRUE,
          md_ratios |-> ratios]
    ELSE chunk_measured(e, payload, offset, count, ratios,
                        mess_ratio(chunk.text, settings.threshold))

chunks_loop(e, payload, offset, count, ratios) ==
    IF offset >= seq_len(payload)
    THEN [early_stop_count |-> count, lazy_str_hard_failure |-> FALSE,
          md_ratios |-> ratios]
    ELSE chunk_decoded(e, payload, offset, count, ratios,
                       decoded_chunk_result(e, payload, offset))

\* lib.rs:435-441, the remainder of a large input under a single-byte candidate
tail_result(e) == decode(Slice(bytes, MAX_PROCESSED_BYTES, Len(bytes)), e, FALSE, FALSE)

\* lib.rs:434
checks_tail(e) == is_too_large_sequence /\ ~is_multi_byte_encoding(e)

RECURSIVE Sum(_)
Sum(s) == IF s = <<>> THEN 0 ELSE Head(s) + Sum(Tail(s))

\* lib.rs:454-457
mean_mess_ratio ==
    IF md_ratios = <<>> THEN 0 ELSE Sum(md_ratios) \div Len(md_ratios)

\* a mutation: the mean is not compared with the threshold
is_soft_failure_by_count == early_stop_count >= max_chunk_gave_up

\* lib.rs:459
is_soft_failure ==
    mean_mess_ratio >= settings.threshold \/ early_stop_count >= max_chunk_gave_up

\* lib.rs:499-512: the chunks of the model's inputs are not longer than
\* TOO_SMALL_SEQUENCE, so coherence_ratio finds no language in them
cd_ratios_merged == <<>>

\* a mutation: the mark's encoding is not accepted at once
is_most_likely_by_chaos(e) ==
    mean_mess_ratio < Scale \div 10 /\ Contains(prioritized_encodings, e)

\* lib.rs:531-532
is_most_likely(e) ==
    \/ mean_mess_ratio < Scale \div 10 /\ Contains(prioritized_encodings, e)
    \/ e = sig_encoding

\* the candidate reaches the fast pre-check
Reached ==
    /\ pc = "probing"
    /\ iana_encodings # <<>>
    /\ ~is_filtered(encoding_iana)
    /\ ~requires_bom(encoding_iana)

\* continue 'iana_encodings_loop
Continue ==
    /\ iana_encodings' = Tail(iana_encodings)
    /\ pc' = "probing"
    /\ UNCHANGED <<unit_vars, more_vars, input_vars, settings, panic_line, order_vars, ret, fallback>>

\* lib.rs:292-301
SkipFiltered ==
    /\ pc = "probing"
    /\ iana_encodings # <<>>
    /\ is_filtered(encoding_iana)
    /\ Continue
    /\ UNCHANGED <<failure_vars, fallback_vars, chunk_vars, results, probed, passed>>

\* lib.rs:306-313
SkipWithoutBom ==
    /\ pc = "probing"
    /\ iana_encodings # <<>>
    /\ ~is_filtered(encoding_iana)
    /\ requires_bom(encoding_iana)
    /\ Continue
    /\ UNCHANGED <<failure_vars, fallback_vars, chunk_vars, results, probed, passed>>

\* lib.rs:324-339
HardFailure ==
    /\ Reached
    /\ ~fast_check(encoding_iana).ok
    /\ tested_but_hard_failure' = Append(tested_but_hard_failure, encoding_iana)
    /\ probed' = Append(probed, encoding_iana)
    /\ Continue
    /\ UNCHANGED <<tested_but_soft_failure, fallback_vars, chunk_vars, results, passed>>

\* lib.rs:343-351
SimilarityPrune ==
    /\ Reached
    /\ fast_check(encoding_iana).ok
    /\ is_similar_to_soft_failure(encoding_iana)
    /\ probed' = Append(probed, encoding_iana)
    /\ Continue
    /\ UNCHANGED <<failure_vars, fallback_vars, chunk_vars, results, passed>>

\* lib.rs:381: seq_len / settings.steps with steps = 0
DivisionPanic ==
    /\ Reached
    /\ fast_check(encoding_iana).ok
    /\ ~is_similar_to_soft_failure(encoding_iana)
    /\ settings.steps = 0
    /\ pc' = "panicked"
    /\ panic_line' = 381
    /\ probed' = Append(probed, encoding_iana)
    /\ UNCHANGED <<unit_vars, more_vars, input_vars, settings, order_vars, iana_encodings, failure_vars,
                   fallback_vars, chunk_vars, results, ret, passed, fallback>>

\* lib.rs:324-429: the fast pre-check succeeds and the chunks loop runs
Measure ==
    /\ Reached
    /\ ~is_similar_to_soft_failure(encoding_iana)
    /\ settings.steps # 0
    /\ \E fast \in {fast_check(encoding_iana)} :
          /\ fast.ok
          /\ decoded_payload' = then_some_payload(encoding_iana, fast.text)
    /\ \E measured \in {chunks_loop(encoding_iana, decoded_payload',
                                    starting_offset(encoding_iana, decoded_payload'),
                                    0, <<>>)} :
          /\ early_stop_count' = measured.early_stop_count
          /\ lazy_str_hard_failure' = measured.lazy_str_hard_failure
          /\ md_ratios' = measured.md_ratios
    /\ probed' = Append(probed, encoding_iana)
    /\ pc' = "measured"
    /\ UNCHANGED <<unit_vars, more_vars, input_vars, settings, panic_line, order_vars, iana_encodings,
                   failure_vars, fallback_vars, results, ret, passed, fallback>>

\* lib.rs:404-417 then 459-488: a chunk that does not decode (or, for ascii,
\* is not ASCII) sets early_stop_count to max_chunk_gave_up
ChunkHardFailure ==
    /\ pc = "measured"
    /\ lazy_str_hard_failure
    /\ tested_but_soft_failure' = Append(tested_but_soft_failure, encoding_iana)
    /\ Continue
    /\ UNCHANGED <<tested_but_hard_failure, fallback_vars, chunk_vars, results,
                   probed, passed>>

\* lib.rs:434-441
tail_is_invalid ==
    /\ ~lazy_str_hard_failure
    /\ checks_tail(encoding_iana)
    /\ is_invalid_chunk(tail_result(encoding_iana), encoding_iana)

\* lib.rs:442-447: the arguments of trace! are evaluated when the trace level
\* is enabled, and unwrap_err panics on an Ok
unwrap_err_panics == trace_enabled /\ tail_result(encoding_iana).ok

\* lib.rs:433-450
TailHardFailure ==
    /\ pc = "measured"
    /\ tail_is_invalid
    /\ ~unwrap_err_panics
    /\ tested_but_hard_failure' = Append(tested_but_hard_failure, encoding_iana)
    /\ Continue
    /\ UNCHANGED <<tested_but_soft_failure, fallback_vars, chunk_vars, results,
                   probed, passed>>

\* lib.rs:446
TailPanic ==
    /\ pc = "measured"
    /\ tail_is_invalid
    /\ unwrap_err_panics
    /\ pc' = "panicked"
    /\ panic_line' = 446
    /\ UNCHANGED <<unit_vars, more_vars, input_vars, settings, order_vars, iana_encodings, failure_vars,
                   fallback_vars, chunk_vars, results, ret, probed, passed, fallback>>

\* the candidate reaches the decision of lib.rs:459
Decided ==
    /\ pc = "measured"
    /\ ~lazy_str_hard_failure
    /\ ~tail_is_invalid

\* lib.rs:473-480
fallback_entry(e) ==
    CharsetMatch_new(bytes, e, settings.threshold, FALSE, <<>>, decoded_payload)

\* lib.rs:466-487
records_fallback(e) ==
    settings.enable_fallback /\ Contains(prioritized_encodings, e)

\* lib.rs:459-488
SoftFailure ==
    /\ Decided
    /\ is_soft_failure
    /\ \E entry \in {[some |-> TRUE, text |-> <<>>, item |-> fallback_entry(encoding_iana)]} :
          /\ fallback_specified' =
                IF records_fallback(encoding_iana) /\ encoding_iana = specified_encoding
                THEN entry ELSE fallback_specified
          /\ fallback_ascii' =
                IF /\ records_fallback(encoding_iana)
                   /\ encoding_iana # specified_encoding
                   /\ encoding_iana = "ascii"
                THEN entry ELSE fallback_ascii
          /\ fallback_u8' =
                IF /\ records_fallback(encoding_iana)
                   /\ encoding_iana # specified_encoding
                   /\ encoding_iana # "ascii"
                THEN entry ELSE fallback_u8
    /\ tested_but_soft_failure' = Append(tested_but_soft_failure, encoding_iana)
    /\ Continue
    /\ UNCHANGED <<tested_but_hard_failure, chunk_vars, results, probed, passed>>

\* lib.rs:522-529
new_match(e) ==
    CharsetMatch_new(bytes, e, mean_mess_ratio, bom_or_sig_available(e),
                     cd_ratios_merged, decoded_payload)

\* lib.rs:490-542 without the early return
Passed ==
    /\ Decided
    /\ ~is_soft_failure
    /\ ~is_most_likely(encoding_iana)
    /\ results' \in append(results, new_match(encoding_iana))
    /\ passed' = Append(passed, encoding_iana)
    /\ Continue
    /\ UNCHANGED <<failure_vars, fallback_vars, chunk_vars, probed>>

\* lib.rs:490-541 with the early return of 531-541
EarlyAccept ==
    /\ Decided
    /\ ~is_soft_failure
    /\ is_most_likely(encoding_iana)
    /\ results' \in append(results, new_match(encoding_iana))
    /\ ret' = from_single(get_by_encoding(results', encoding_iana).item)
    /\ passed' = Append(passed, encoding_iana)
    /\ pc' = "returned"
    /\ UNCHANGED <<unit_vars, more_vars, input_vars, settings, panic_line, order_vars, iana_encodings,
                   failure_vars, fallback_vars, chunk_vars, probed, fallback>>

\* a mutation: the decoded payloads are not compared
fb_ascii_over_u8 ==
    IF fallback_specified.some THEN fallback_specified
    ELSE IF fallback_ascii.some THEN fallback_ascii
    ELSE IF fallback_u8.some THEN fallback_u8
    ELSE None

\* lib.rs:546-556
fb ==
    IF fallback_specified.some THEN fallback_specified
    ELSE IF fallback_u8.some /\ ~fallback_ascii.some THEN fallback_u8
    ELSE IF /\ fallback_u8.some
            /\ fallback_ascii.some
            /\ fallback_u8.item.decoded_payload # fallback_ascii.item.decoded_payload
    THEN fallback_u8
    ELSE IF fallback_ascii.some THEN fallback_ascii
    ELSE None

\* lib.rs:544-577, after the last candidate
Finish ==
    /\ pc = "probing"
    /\ iana_encodings = <<>>
    /\ IF results = <<>> /\ fb.some
       THEN /\ results' \in append(results, fb.item)
            /\ fallback' = fb
       ELSE UNCHANGED <<results, fallback>>
    /\ ret' = results'
    /\ pc' = "returned"
    /\ UNCHANGED <<unit_vars, more_vars, input_vars, settings, panic_line, order_vars, iana_encodings,
                   failure_vars, fallback_vars, chunk_vars, probed, passed>>

Next ==
    \/ NormalizeSettings
    \/ NormalizePanic
    \/ EmptyInput
    \/ Prepare
    \/ SkipFiltered
    \/ SkipWithoutBom
    \/ HardFailure
    \/ SimilarityPrune
    \/ DivisionPanic
    \/ Measure
    \/ ChunkHardFailure
    \/ TailHardFailure
    \/ TailPanic
    \/ SoftFailure
    \/ Passed
    \/ EarlyAccept
    \/ Finish

Spec == Init /\ [][Next]_vars

\* ------------------------------------------------------------- properties
\* what the input says, read from the input alone
declared_encoding ==
    IF given.preemptive_behaviour THEN any_specified_encoding(bytes, 4096) ELSE ""

marked_encoding == identify_sig_or_bom(bytes).name

\* the matches of a container with their submatches
all_matches(matches) ==
    UNION {{matches[i]} \cup Range(matches[i].submatch) : i \in 1..Len(matches)}

\* CharsetMatch::unicode_ranges
unicode_ranges(m) ==
    {unicode_range(c) : c \in Range(m.decoded_payload.text)} \ {"None"}

\* C1: for every input and every settings value from_bytes returns without
\* panicking.
C1_NeverPanics == pc # "panicked"

\* C2: labels of include_encodings and exclude_encodings that resolve to no
\* encoding are dropped silently, from_bytes carries on without them.
C2_InvalidLabelsDropped ==
    (~resolves(given.include_encodings) \/ ~resolves(given.exclude_encodings))
        => panic_line \notin {181, 193}

\* C3: on an empty input from_bytes returns, for any settings, exactly one
\* match, with encoding utf-8, the empty string as decoded payload, no byte
\* order mark and no Unicode range.
C3_EmptyInputDefault ==
    (bytes = <<>> /\ pc \notin {"start", "normalized"})
        => /\ pc = "returned"
           /\ Len(ret) = 1
           /\ ret[1].encoding = "utf-8"
           /\ ret[1].decoded_payload = Some(<<>>)
           /\ ~ret[1].has_sig_or_bom
           /\ unicode_ranges(ret[1]) = {}

\* the order that C4 states: the declared encoding, the encoding of the mark,
\* ascii, utf-8, the registry
claimed_order ==
    (IF declared_encoding # "" THEN <<declared_encoding>> ELSE <<>>)
    \o (IF marked_encoding # "" THEN <<marked_encoding>> ELSE <<>>)
    \o <<"ascii", "utf-8">>
    \o IANA_SUPPORTED

first_place(order, e) ==
    CHOOSE i \in 1..Len(order) : order[i] = e /\ \A j \in 1..(i - 1) : order[j] # e

\* C4: the candidates are probed in the order declared encoding, encoding of
\* the BOM/SIG, ascii, utf-8, then the rest of the registry in its own order,
\* and none is probed twice.
C4_ProbeOrder ==
    Len(probed) > 1 =>
        \A order \in {claimed_order} :
            \A i, j \in 1..Len(probed) :
                i < j => first_place(order, probed[i]) < first_place(order, probed[j])

C4_Witness ==
    /\ pc = "returned"
    /\ declared_encoding # ""
    /\ marked_encoding # ""
    /\ declared_encoding # marked_encoding
    /\ Len(probed) >= 4

PureAscii(s) == \A i \in 1..Len(s) : s[i] < 128

\* the case of C5: default settings, a non-empty pure-ASCII input without a
\* mark and without a declared encoding, from_bytes has returned
C5_Case ==
    /\ pc = "returned"
    /\ given = DefaultSettings
    /\ bytes # <<>>
    /\ PureAscii(bytes)
    /\ marked_encoding = ""
    /\ declared_encoding = ""

best_is(encoding) ==
    get_best(ret).some /\ get_best(ret).item.encoding = encoding

\* what the chunks loop measures for ascii on the input
ascii_measured ==
    chunks_loop("ascii", then_some_payload("ascii", fast_check("ascii").text), 0, 0, <<>>)

ascii_chaos_is_low ==
    /\ ~ascii_measured.lazy_str_hard_failure
    /\ ascii_measured.early_stop_count < max_chunk_gave_up
    /\ ascii_measured.md_ratios # <<>>
    /\ Sum(ascii_measured.md_ratios) * 10 < Scale * Len(ascii_measured.md_ratios)

byte_order_mark(e) ==
    CASE e = "utf-16le" -> <<255, 254>>
      [] e = "utf-16be" -> <<254, 255>>
      [] e = "utf-8" -> <<239, 187, 191>>

\* the fallbacks recorded so far
recorded_fallbacks ==
    {slot.item : slot \in {f \in {fallback_specified, fallback_u8, fallback_ascii} : f.some}}

\* C6: utf-16le and utf-16be are decoded and scored, and appear as a match, a
\* submatch or a fallback, only when the input starts with their byte order
\* mark.
C6_Utf16NeedsBom ==
    \A e \in {"utf-16le", "utf-16be"} :
        (\/ Contains(probed, e)
         \/ \E m \in all_matches(results) \cup all_matches(ret) \cup recorded_fallbacks :
                m.encoding = e)
            => starts_with(bytes, byte_order_mark(e))

C6_Witness ==
    /\ pc = "returned"
    /\ \E m \in all_matches(ret) : m.encoding = "utf-16le"

\* the lists of the caller after canonicalisation
allowed(e) ==
    /\ ~Contains(normalize(given.exclude_encodings), e)
    /\ given.include_encodings # <<>> => Contains(normalize(given.include_encodings), e)

C8_ChaosBelowThreshold ==
    (pc = "returned" /\ bytes # <<>>)
        => \/ \A m \in all_matches(ret) : m.mean_mess_ratio < given.threshold
           \/ /\ passed = <<>>
              /\ given.enable_fallback
              /\ fallback.some
              /\ ret = <<fallback.item>>
              /\ fallback.item.submatch = <<>>

C8_Witness ==
    /\ pc = "returned"
    /\ passed = <<>>
    /\ Len(ret) = 1
    /\ ret[1].mean_mess_ratio >= given.threshold
    /\ Len(tested_but_soft_failure) >= 2

\* the fallback that C9 states
claimed_fallback ==
    IF fallback_specified.some THEN <<fallback_specified.item>>
    ELSE IF fallback_u8.some /\ fallback_ascii.some
    THEN IF fallback_u8.item.decoded_payload # fallback_ascii.item.decoded_payload
         THEN <<fallback_u8.item>>
         ELSE <<fallback_ascii.item>>
    ELSE IF fallback_u8.some THEN <<fallback_u8.item>>
    ELSE IF fallback_ascii.some THEN <<fallback_ascii.item>>
    ELSE <<>>

C10_Case ==
    /\ pc = "measured"
    /\ ~lazy_str_hard_failure
    /\ ~tail_is_invalid
    /\ mean_mess_ratio < given.threshold
    /\ early_stop_count < max_chunk_gave_up
    /\ \/ /\ mean_mess_ratio * 10 < Scale
          /\ encoding_iana \in {declared_encoding, marked_encoding, "ascii", "utf-8"}
       \/ encoding_iana = marked_encoding

\* C10: a candidate E that passes chaos probing with a mean below 0.1 while
\* prioritised, or that is the encoding of the BOM/SIG, ends from_bytes at
\* once: the result is exactly one match, of encoding E, and no further
\* candidate is probed.
C10_EarlyAccept ==
    [][C10_Case => /\ pc' = "returned"
                   /\ Len(ret') = 1
                   /\ ret'[1].encoding = encoding_iana
                   /\ probed' = probed
                   /\ iana_encodings' = iana_encodings]_vars

C10_Witness ==
    /\ pc = "returned"
    /\ iana_encodings # <<>>
    /\ Len(ret) = 1
    /\ ret[1].encoding = Head(iana_encodings)
    /\ Len(results) >= 2
\* C11: the decoded payload of a match that CharsetMatch::new built, whether it
\* decoded the payload itself or was handed the text decoded after the byte
\* order mark, never starts with U+FEFF; so for every match that from_bytes
\* returns.
C11_NoLeadingBom ==
    \A m \in all_matches(results) \cup all_matches(ret) \cup recorded_fallbacks :
        m.decoded_payload.some => ~starts_with(m.decoded_payload.text, <<65279>>)

\* ------------------------------------------- the entry points on their own
\* from_bytes before any call
MainIdle ==
    /\ bytes = <<>>
    /\ trace_enabled = FALSE
    /\ given = DefaultSettings
    /\ settings = DefaultSettings
    /\ pc = "start"
    /\ panic_line = 0
    /\ specified_encoding = ""
    /\ sig_encoding = ""
    /\ sig_payload = <<>>
    /\ prioritized_encodings = <<>>
    /\ iana_encodings = <<>>
    /\ tested_but_hard_failure = <<>>
    /\ tested_but_soft_failure = <<>>
    /\ fallback_ascii = None
    /\ fallback_u8 = None
    /\ fallback_specified = None
    /\ decoded_payload = None
    /\ early_stop_count = 0
    /\ lazy_str_hard_failure = FALSE
    /\ md_ratios = <<>>
    /\ results = <<>>
    /\ ret = <<>>
    /\ probed = <<>>
    /\ passed = <<>>
    /\ fallback = None

\* ------------------------------------ entity.rs: CharsetMatches on its own
\* the most matches that are appended to a container
MaxItems == 3

\* The matches handed to append, each built by CharsetMatch::new without a
\* decoded payload: one character, one two-byte character, a payload longer
\* than TOO_BIG_SEQUENCE, a payload that utf-8 does not decode; and matches
\* whose chaos is 0.006 and 0.012 with coherences 0.4 and 0.8.
ContainerPayloads == {<<97>>, <<195, 169>>, <<97, 97, 97, 97, 97>>, <<254>>}

ContainerMatches ==
    {CharsetMatch_new(payload, encoding, 0, FALSE, <<>>, None) :
        payload \in ContainerPayloads, encoding \in {"utf-8", "windows-1254"}}
    \cup {CharsetMatch_new(<<97>>, "utf-8", 6 * (Scale \div 1000), FALSE,
                           <<400 * (Scale \div 1000)>>, None),
          CharsetMatch_new(<<97>>, "utf-8", 12 * (Scale \div 1000), FALSE,
                           <<800 * (Scale \div 1000)>>, None)}

ContainerInit ==
    /\ MainIdle
    /\ MoreIdle
    /\ MessIdle
    /\ DecodeIdle
    /\ LabelIdle
    /\ CliIdle
    /\ ContainerIdle

\* the matches a container holds, submatches included
held(matches) ==
    Len(matches) + Sum([i \in 1..Len(matches) |-> Len(matches[i].submatch)])

\* CharsetMatches::append returns
AppendItem ==
    /\ held(items) < MaxItems
    /\ ~sort_panicked
    /\ \E item \in ContainerMatches :
          /\ items' \in append(items, item)
          /\ appended' = [some |-> TRUE, item |-> item]
    /\ UNCHANGED <<main_vars, more_vars, sort_panicked, mess_vars, decode_vars, label_vars, cli_vars>>

\* CharsetMatches::append panics in sort_unstable_by, which may panic when
\* the comparison is not a total order
AppendPanic ==
    /\ held(items) < MaxItems
    /\ ~sort_panicked
    /\ \E item \in ContainerMatches :
          /\ Len(item.payload) > TOO_BIG_SEQUENCE
                \/ \A i \in 1..Len(items) :
                      \/ items[i].fingerprint # item.fingerprint
                      \/ items[i].mean_mess_ratio # item.mean_mess_ratio
          /\ ~is_total_order(Append(items, item))
          /\ items' \in arrangements(Append(items, item), FALSE)
          /\ appended' = [some |-> TRUE, item |-> item]
    /\ sort_panicked' = TRUE
    /\ UNCHANGED <<main_vars, more_vars, mess_vars, decode_vars, label_vars, cli_vars>>

ContainerNext == AppendItem \/ AppendPanic

ContainerSpec == ContainerInit /\ [][ContainerNext]_vars

\* the f32 machine epsilon, which is below one unit of 1/Scale, rounded up to
\* one unit
Epsilon == 1

\* the peers of b in the container: the same decoded payload and a chaos
\* within epsilon
peers(b) ==
    {i \in 1..Len(items) :
        /\ items[i].decoded_payload = b.decoded_payload
        /\ Abs(items[i].mean_mess_ratio - b.mean_mess_ratio) < Epsilon}

C13_TotalOrder ==
    \A a, b, c \in Range(items) :
        (partial_cmp(a, b) # "Greater" /\ partial_cmp(b, c) # "Greater")
            => partial_cmp(a, c) # "Greater"

\* C14: of two matches with chaos less than 0.01 apart and coherence not more
\* than 0.02 apart, the one with the higher multi_byte_usage() is ordered
\* before the other.
C14_MultiByteFirst ==
    \A a, b \in Range(items) :
        (/\ Abs(a.mean_mess_ratio - b.mean_mess_ratio) * 100 < Scale
         /\ Abs(coherence(a) - coherence(b)) * 100 <= 2 * Scale
         /\ multi_byte_usage(a) > multi_byte_usage(b))
            => partial_cmp(a, b) = "Less"

\* ------------------------------------------------------ mess_ratio on its own
MaxUnprintable == 2

MaxFill == 48

\* "coding\n"
Word == <<99, 111, 100, 105, 110, 103, 10>>

\* k times U+0001, then the first n characters of "coding\ncoding\n..."
MessText(k, n) == [i \in 1..(k + n) |-> IF i <= k THEN 1 ELSE Word[((i - k - 1) % Len(Word)) + 1]]

MessTexts == {MessText(k, n) : k \in 0..MaxUnprintable, n \in 0..MaxFill}

\* 0.1, 0.2 (the default), 0.3 and 1.0
Thresholds == {(Scale \div 10) * tenth : tenth \in {1, 2, 3, 10}}

MessInit ==
    /\ MainIdle
    /\ MoreIdle
    /\ ContainerIdle /\ DecodeIdle /\ LabelIdle /\ CliIdle
    /\ decoded_sequence \in MessTexts
    /\ maximum_threshold \in Thresholds
    /\ mess_ret = Unset

\* md.rs:689-771
MessRatio ==
    /\ ~mess_ret.some
    /\ mess_ret' = [some |-> TRUE, value |-> mess_ratio(decoded_sequence, maximum_threshold)]
    /\ UNCHANGED <<main_vars, more_vars, container_vars, decode_vars, label_vars, cli_vars,
                   decoded_sequence, maximum_threshold>>

MessNext == MessRatio

MessSpec == MessInit /\ [][MessNext]_vars

\* C15: the early exit of mess_ratio is monotone: when mess_ratio(s, t) is at
\* least t, mess_ratio(s, 1.0) is at least t too.
C15_MonotoneEarlyExit ==
    (mess_ret.some /\ mess_ret.value >= maximum_threshold)
        => mess_ratio(decoded_sequence, Scale) >= maximum_threshold

\* ---------------------------------------------------------- decode on its own
MaxInput == 5

\* 'a', a continuation byte and the lead byte of a four-byte sequence
DecodeBytes == {97, 169, 240}

RECURSIVE BytesUpTo(_)
BytesUpTo(n) ==
    IF n = 0 THEN {<<>>}
    ELSE LET shorter == BytesUpTo(n - 1)
         IN  shorter \cup {Append(s, b) : s \in {t \in shorter : Len(t) = n - 1},
                                          b \in DecodeBytes}

DecodeEncodings == {"utf-8", "utf-16le", "windows-1254"}

\* utils.rs:349-370: the call, up to the loop
DecodeInit ==
    /\ MainIdle
    /\ MoreIdle
    /\ ContainerIdle /\ MessIdle /\ LabelIdle /\ CliIdle
    /\ input \in BytesUpTo(MaxInput)
    /\ from_encoding \in DecodeEncodings
    /\ only_test \in BOOLEAN
    /\ is_chunk \in BOOLEAN
    /\ begin_offset = 0
    /\ end_offset = Len(input)
    /\ buf = <<>>
    /\ err = ""
    /\ error_occured = FALSE
    /\ rounds = 0
    /\ decode_pc = "loop"
    /\ decode_ret = Unset

\* utils.rs:371-394: one round of the loop, which breaks ...
DecodeBreak ==
    /\ decode_pc = "loop"
    /\ \E res \in {decode_to(encoding_from_whatwg_label(from_encoding),
                             Slice(input, begin_offset, end_offset))} :
          /\ ~is_chunk \/ res.ok \/ ~is_multi_byte_encoding(from_encoding)
          /\ buf' = buf \o res.text
          /\ error_occured' = ~res.ok
    /\ rounds' = rounds + 1
    /\ decode_pc' = "done"
    /\ UNCHANGED <<main_vars, more_vars, container_vars, mess_vars, label_vars, cli_vars,
                   input, from_encoding, only_test, is_chunk, begin_offset, end_offset,
                   err, decode_ret>>

\* ... or moves one end of the window and goes on unless decode_stops
DecodeRetry ==
    /\ decode_pc = "loop"
    /\ \E res \in {decode_to(encoding_from_whatwg_label(from_encoding),
                             Slice(input, begin_offset, end_offset))} :
          /\ ~(~is_chunk \/ res.ok \/ ~is_multi_byte_encoding(from_encoding))
          /\ buf' = buf \o res.text
          /\ error_occured' = ~res.ok
          /\ err' = res.cause
          /\ begin_offset' = begin_offset + (IF res.cause = "invalid sequence" THEN 1 ELSE 0)
          /\ end_offset' = end_offset - (IF res.cause = "incomplete sequence" THEN 1 ELSE 0)
    /\ rounds' = rounds + 1
    /\ decode_pc' = IF decode_stops(begin_offset', end_offset', Len(input))
                    THEN "done" ELSE "loop"
    /\ UNCHANGED <<main_vars, more_vars, container_vars, mess_vars, label_vars, cli_vars,
                   input, from_encoding, only_test, is_chunk, decode_ret>>

\* utils.rs:396-399
DecodeReturn ==
    /\ decode_pc = "done"
    /\ decode_ret' = [some |-> TRUE,
                      value |-> decode_result([ok |-> ~error_occured, text |-> buf,
                                               cause |-> err], only_test)]
    /\ decode_pc' = "returned"
    /\ UNCHANGED <<main_vars, more_vars, container_vars, mess_vars, label_vars, cli_vars,
                   input, from_encoding, only_test, is_chunk, begin_offset, end_offset,
                   buf, err, error_occured, rounds>>

DecodeNext == DecodeBreak \/ DecodeRetry \/ DecodeReturn

\* a call that has started is run to its end
DecodeSpec == DecodeInit /\ [][DecodeNext]_vars /\ WF_vars(DecodeNext)

\* C16: decode returns.  A retry takes one byte from the start or from the
\* end of the window; the loop goes on only while the window is not empty and
\* at most 3 bytes are gone on each side, so a successful result has dropped
\* at most 3 leading and at most 3 trailing bytes; without is_chunk or with a
\* single-byte encoding there is exactly one attempt.
C16_DecodeTerminates ==
    /\ <>(decode_pc = "returned")
    /\ [][decode_pc = "loop"
            => \/ /\ decode_pc' = "done"
                  /\ begin_offset' = begin_offset /\ end_offset' = end_offset
               \/ /\ is_chunk /\ is_multi_byte_encoding(from_encoding)
                  /\ error_occured'
                  /\ \/ begin_offset' = begin_offset + 1 /\ end_offset' = end_offset
                     \/ begin_offset' = begin_offset /\ end_offset' = end_offset - 1]_vars
    /\ [](decode_pc = "loop" =>
            /\ end_offset - begin_offset >= 1 \/ rounds = 0
            /\ begin_offset <= 3
            /\ Len(input) - end_offset <= 3)
    /\ [](decode_pc = "returned" /\ decode_ret.value.ok =>
            /\ begin_offset <= 3
            /\ Len(input) - end_offset <= 3)
    /\ [](decode_pc = "returned" /\ (~is_chunk \/ ~is_multi_byte_encoding(from_encoding))
            => rounds = 1)

\* a chunk that decodes after three leading bytes were dropped
C16_Witness ==
    /\ decode_pc = "returned"
    /\ decode_ret.value.ok
    /\ is_chunk
    /\ begin_offset = 3
    /\ rounds = 4

\* ------------------------------------- labels and signatures on their own
Labels ==
    {"ascii", "us-ascii", "ASCII", "US-ASCII", "Ascii", "Us-Ascii", "utf8", "utf-8",
     "UTF-8", "l5", "windows-1252", "WINDOWS-1252", "windows-1254", "whatever"}

MaxTail == 2

\* what follows a mark
Tails == {t \in {<<>>, <<97>>, <<0>>, <<0, 0>>, <<56, 45>>, <<254, 255>>} : Len(t) <= MaxTail}

\* every mark, whole or cut short, and what follows it
MarkedSequences ==
    UNION {{SubSeq(m.sig, 1, k) \o t : k \in 0..Len(m.sig), t \in Tails} :
              m \in Range(ENCODING_MARKS)}

\* ':' and "='"
HintSeparators == {<<58>>, <<61, 39>>}

\* "coding", a separator and a label
Hint(sep, label) == <<99, 111, 100, 105, 110, 103>> \o sep \o LabelBytes[label]

HintSequences == {Hint(sep, l) : sep \in HintSeparators, l \in DOMAIN LabelBytes}

LabelInit ==
    /\ MainIdle
    /\ MoreIdle
    /\ ContainerIdle /\ MessIdle /\ DecodeIdle /\ CliIdle
    /\ cp_name \in Labels
    /\ sequence \in MarkedSequences \cup HintSequences
    /\ iana_ret = Unset
    /\ sig_ret = Unset
    /\ hint_ret = Unset

\* utils.rs:258-266
IanaName ==
    /\ ~iana_ret.some
    /\ iana_ret' = [some |-> TRUE, value |-> iana_name(cp_name)]
    /\ UNCHANGED <<main_vars, more_vars, container_vars, mess_vars, decode_vars, cli_vars,
                   cp_name, sequence, sig_ret, hint_ret>>

\* utils.rs:249-255
IdentifySigOrBom ==
    /\ ~sig_ret.some
    /\ sig_ret' = [some |-> TRUE, value |-> identify_sig_or_bom(sequence)]
    /\ UNCHANGED <<main_vars, more_vars, container_vars, mess_vars, decode_vars, cli_vars,
                   cp_name, sequence, iana_ret, hint_ret>>

\* utils.rs:274-289, as lib.rs:249 calls it
AnySpecifiedEncoding ==
    /\ ~hint_ret.some
    /\ hint_ret' = [some |-> TRUE, value |-> any_specified_encoding(sequence, 4096)]
    /\ UNCHANGED <<main_vars, more_vars, container_vars, mess_vars, decode_vars, cli_vars,
                   cp_name, sequence, iana_ret, sig_ret>>

LabelNext == IanaName \/ IdentifySigOrBom \/ AnySpecifiedEncoding

LabelSpec == LabelInit /\ [][LabelNext]_vars

\* the labels of ascii, in any letter case
is_ascii_label(label) == to_ascii_lowercase(label) \in {"ascii", "us-ascii"}

\* C17: the labels "ascii" and "us-ascii", in any letter case, resolve to
\* ascii and never to windows-1252, also when a declarative hint of the
\* content spells them; no ascii label is an alias of windows-1252.
C17_AsciiLabels ==
    /\ (iana_ret.some /\ is_ascii_label(cp_name)) => iana_ret.value = "ascii"
    /\ (hint_ret.some /\ \E l \in DOMAIN LabelBytes :
                            /\ is_ascii_label(l)
                            /\ \E sep \in HintSeparators : sequence = Hint(sep, l))
            => hint_ret.value = "ascii"
    /\ \A l \in Labels : is_ascii_label(l) => encoding_from_whatwg_label(l) # "windows-1252"

\* C18: identify_sig_or_bom returns the longest mark of the table that the
\* sequence starts with, name and bytes, and (None, None) when it starts with
\* none.
C18_LongestMark ==
    sig_ret.some =>
        \A marks \in {{m \in Range(ENCODING_MARKS) : starts_with(sequence, m.sig)}} :
            IF marks = {} THEN sig_ret.value = [name |-> "", sig |-> <<>>]
            ELSE /\ sig_ret.value \in marks
                 /\ \A m \in marks : Len(m.sig) <= Len(sig_ret.value.sig)

\* FF FE 00 00 is utf-32le, not utf-16le
C18_Witness ==
    /\ sig_ret.some
    /\ starts_with(sequence, <<255, 254, 0, 0>>)
    /\ sig_ret.value = [name |-> "utf-32le", sig |-> <<255, 254, 0, 0>>]

\* the input without the mark of the encoding, when it starts with it
after_mark(encoding) ==
    IF sig_encoding # "" /\ sig_encoding = encoding
    THEN Slice(bytes, Len(sig_payload), Len(bytes))
    ELSE bytes

\* a strict decoding of the whole sequence succeeds; for ascii: every byte is
\* below 0x80
decodes_strictly(encoding, whole) ==
    IF encoding = "ascii" THEN \A i \in 1..Len(whole) : whole[i] < 128
    ELSE decode(whole, encoding, TRUE, FALSE).ok

\* C19: every match of the result, ranked match, submatch or fallback, names
\* an encoding under which the whole input after the mark decodes strictly.
C19_ResultDecodes ==
    \A m \in all_matches(ret) : decodes_strictly(m.encoding, after_mark(m.encoding))

\* ------------------------------------------------- the normalizer command
MaxFiles == 2

\* the exit code of a process that panicked
PanicExitCode == 101

\* -0.001, 0.0, 0.2, 1.0 and 1.001
CliThresholds == {0 - 1, 0, 2 * (Scale \div 10), Scale, Scale + 1}

\* the parsed command lines: one to MaxFiles files and the flags
ArgSets ==
    [files : {[i \in 1..n |-> i] : n \in 1..MaxFiles},
     verbose : BOOLEAN,
     normalize : BOOLEAN,
     replace : BOOLEAN,
     force : BOOLEAN,
     threshold : CliThresholds]

\* normalizer.rs:82-89: the argument sets that normalizer turns down
rejected(a) ==
    \/ a.replace /\ ~a.normalize
    \/ ~a.replace /\ a.force
    \/ ~(0 <= a.threshold /\ a.threshold <= Scale)

\* normalizer.rs:229-232: the command line is parsed
CliInit ==
    /\ MainIdle
    /\ MoreIdle
    /\ ContainerIdle /\ MessIdle /\ DecodeIdle /\ LabelIdle
    /\ args \in ArgSets
    /\ readable \in SUBSET (1..MaxFiles)
    /\ writable \in SUBSET (1..MaxFiles)
    /\ cli_pc = "parsed"
    /\ file_index = 1
    /\ files_read = <<>>
    /\ files_written = <<>>
    /\ exit_code = 0 - 1

\* main, normalizer.rs:237-238: Err(e) => panic!
Exit(code) ==
    /\ cli_pc' = "exited"
    /\ exit_code' = code

\* normalizer.rs:82-89
CheckArgs ==
    /\ cli_pc = "parsed"
    /\ IF rejected(args) THEN Exit(PanicExitCode)
       ELSE cli_pc' = "files" /\ UNCHANGED exit_code
    /\ UNCHANGED <<main_vars, more_vars, container_vars, mess_vars, decode_vars, label_vars,
                   args, readable, writable, file_index, files_read, files_written>>

\* normalizer.rs:99-205, one file: canonicalize and from_path fail on a file
\* that cannot be read; from_bytes gives no match, a utf match or another
\* one, or panics in trace! (lib.rs:446) when the trace level is enabled
ProcessFile ==
    /\ cli_pc = "files"
    /\ file_index <= Len(args.files)
    /\ \E guess \in {"none", "utf", "other", "panic"}, confirmed \in BOOLEAN :
        \E f \in {args.files[file_index]} :
          IF f \notin readable
          THEN Exit(PanicExitCode) /\ UNCHANGED <<file_index, files_read, files_written>>
          ELSE /\ files_read' = Append(files_read, f)
               /\ guess = "panic" => args.verbose
               /\ IF guess = "panic"
                  THEN Exit(PanicExitCode) /\ UNCHANGED <<file_index, files_written>>
                  ELSE IF \/ guess # "other"
                          \/ ~args.normalize
                          \/ args.replace /\ ~args.force /\ ~confirmed
                  THEN /\ file_index' = file_index + 1
                       /\ UNCHANGED <<cli_pc, exit_code, files_written>>
                  ELSE IF f \in writable
                  THEN /\ files_written' = Append(files_written, f)
                       /\ file_index' = file_index + 1
                       /\ UNCHANGED <<cli_pc, exit_code>>
                  ELSE Exit(PanicExitCode) /\ UNCHANGED <<file_index, files_written>>
    /\ UNCHANGED <<main_vars, more_vars, container_vars, mess_vars, decode_vars, label_vars,
                   args, readable, writable>>

\* normalizer.rs:208-226 and 239: the results are printed, process::exit(0)
PrintResults ==
    /\ cli_pc = "files"
    /\ file_index > Len(args.files)
    /\ Exit(0)
    /\ UNCHANGED <<main_vars, more_vars, container_vars, mess_vars, decode_vars, label_vars,
                   args, readable, writable, file_index, files_read, files_written>>

CliNext == CheckArgs \/ ProcessFile \/ PrintResults

\* the process runs until it exits
CliSpec == CliInit /\ [][CliNext]_vars /\ WF_vars(CliNext)

\* no file of the command line fails to be read or written
no_io_error ==
    /\ Range(args.files) \subseteq readable
    /\ Range(args.files) \subseteq writable

\* C20: an argument set with --replace but not --normalize, with --force but
\* not --replace, or with a threshold outside [0, 1] ends the process with an
\* exit code above 0 before any file is read, and no file is written; a run
\* with valid arguments and no I/O error ends with exit code 0.
C20_CliExitCodes ==
    /\ <>(cli_pc = "exited")
    /\ []((/\ cli_pc # "parsed"
           /\ \/ args.replace /\ ~args.normalize
              \/ args.force /\ ~args.replace
              \/ args.threshold < 0
              \/ args.threshold > Scale)
            => /\ cli_pc = "exited"
               /\ exit_code > 0
               /\ files_read = <<>>
               /\ files_written = <<>>)
    /\ []((/\ cli_pc = "exited"
           /\ ~(args.replace /\ ~args.normalize)
           /\ ~(args.force /\ ~args.replace)
           /\ args.threshold >= 0
           /\ args.threshold <= Scale
           /\ no_io_error)
            => exit_code = 0)

\* C21: a candidate of which a chunk does not decode during mess probing (for
\* ascii: holds a non-ASCII character) is abandoned as a hard failure: it is
\* not added to the soft failures, which the similarity prune reads, and it
\* is not recorded as a fallback.
C21_ChunkFailureIsHard ==
    [][(pc = "measured" /\ lazy_str_hard_failure)
        => /\ tested_but_soft_failure' = tested_but_soft_failure
           /\ UNCHANGED fallback_vars]_vars

\* C22: for each candidate, the chunks that are decoded and handed to
\* mess_ratio are not more than the clamped settings.steps.
C22_ChunksWithinSteps == pc = "measured" => Len(md_ratios) <= settings.steps

\* C23: after the clamping of a non-empty input of length len,
\* steps * chunk_size <= len; the settings are collapsed to steps = 1,
\* chunk_size = len only when len < steps * chunk_size, and settings that fit
\* are left as they were given.
C23_ClampKeepsFitting ==
    pc \in {"probing", "measured"} =>
        /\ settings.steps * settings.chunk_size <= Len(bytes)
        /\ (/\ settings.steps = 1
            /\ settings.chunk_size = Len(bytes)
            /\ <<given.steps, given.chunk_size>> # <<1, Len(bytes)>>)
              => Len(bytes) < given.steps * given.chunk_size
        /\ given.steps * given.chunk_size <= Len(bytes)
              => /\ settings.steps = given.steps
                 /\ settings.chunk_size = given.chunk_size

\* ------------------------------------------------- coherence_ratio on its own
MaxLayers == 2

MaxLanguages == 4

\* the languages that alphabet_languages gives for a layer, in its order
LayerLanguages == <<"English", "French", "German", "Italian">>

\* what characters_popularity_compare gives: 0.05 or 0.9
PopularityRatios == {Scale \div 20, 9 * (Scale \div 10)}

\* a layer of alpha_unicode_split: its number of characters, and for each of
\* its languages the ratio of characters_popularity_compare
CoherenceLayers ==
    UNION {[length : {TOO_SMALL_SEQUENCE, TOO_SMALL_SEQUENCE + 1},
            ratios : [1..n -> PopularityRatios]] : n \in 0..MaxLanguages}

RECURSIVE LayersUpTo(_)
LayersUpTo(n) ==
    IF n = 0 THEN {<<>>}
    ELSE LET shorter == LayersUpTo(n - 1)
         IN  shorter \cup {Append(s, l) : s \in {t \in shorter : Len(t) = n - 1},
                                          l \in CoherenceLayers}

\* cd.rs:225-239: the call with the default threshold, up to the loops
CoherenceInit ==
    /\ MainIdle
    /\ FirstIdle
    /\ LanguageIdle /\ ArchaicIdle /\ SplitIdle
    /\ cd_layers \in LayersUpTo(MaxLayers)
    /\ layer_index = 1
    /\ language_index = 0
    /\ cd_results = <<>>
    /\ sufficient_match_count = 0
    /\ cd_pc = "layers"
    /\ cd_ret = Unset

\* cd.rs:241-252: the next layer; a layer of at most TOO_SMALL_SEQUENCE
\* characters is passed over
CoherenceLayer ==
    /\ cd_pc = "layers"
    /\ layer_index <= Len(cd_layers)
    /\ IF cd_layers[layer_index].length <= TOO_SMALL_SEQUENCE
       THEN /\ layer_index' = layer_index + 1
            /\ UNCHANGED <<language_index, cd_pc>>
       ELSE /\ language_index' = 1
            /\ cd_pc' = "languages"
            /\ UNCHANGED layer_index
    /\ UNCHANGED <<main_vars, unit_vars, language_vars, archaic_vars, split_vars,
                   cd_layers, cd_results, sufficient_match_count, cd_ret>>

\* the inner loop is left: the outer loop goes to the next layer
next_layer ==
    /\ layer_index' = layer_index + 1
    /\ cd_pc' = "layers"
    /\ UNCHANGED language_index

\* cd.rs:255-272: one language of the layer
CoherenceLanguage ==
    /\ cd_pc = "languages"
    /\ IF language_index > Len(cd_layers[layer_index].ratios)
       THEN next_layer /\ UNCHANGED <<cd_results, sufficient_match_count>>
       ELSE \E popularity \in {cd_layers[layer_index].ratios[language_index]} :
              IF popularity < Scale \div 10
              THEN /\ language_index' = language_index + 1
                   /\ UNCHANGED <<layer_index, cd_pc, cd_results, sufficient_match_count>>
              ELSE /\ sufficient_match_count' =
                         sufficient_match_count
                         + (IF popularity >= 8 * (Scale \div 10) THEN 1 ELSE 0)
                   /\ cd_results' = Append(cd_results,
                                           [language |-> LayerLanguages[language_index],
                                            score |-> popularity])
                   /\ IF sufficient_match_count' >= 3
                      THEN next_layer
                      ELSE /\ language_index' = language_index + 1
                           /\ UNCHANGED <<layer_index, cd_pc>>
    /\ UNCHANGED <<main_vars, unit_vars, language_vars, archaic_vars, split_vars,
                   cd_layers, cd_ret>>

\* cd.rs:185-195: the best score of each language
filter_alt_coherence_matches(found) ==
    {[language |-> l,
      score |-> CHOOSE x \in {found[i].score : i \in {j \in 1..Len(found) : found[j].language = l}} :
                   \A i \in 1..Len(found) : found[i].language = l => found[i].score <= x] :
        l \in {found[i].language : i \in 1..Len(found)}}

\* cd.rs:275: the matches in an order of falling score
sort_by_score(matches) ==
    {s \in [1..Cardinality(matches) -> matches] :
        /\ \A i, j \in 1..Cardinality(matches) : i # j => s[i] # s[j]
        /\ \A i, j \in 1..Cardinality(matches) : i < j => s[i].score >= s[j].score}

\* cd.rs:274-276
CoherenceReturn ==
    /\ cd_pc = "layers"
    /\ layer_index > Len(cd_layers)
    /\ \E sorted \in sort_by_score(filter_alt_coherence_matches(cd_results)) :
          cd_ret' = [some |-> TRUE, value |-> sorted]
    /\ cd_pc' = "returned"
    /\ UNCHANGED <<main_vars, unit_vars, language_vars, archaic_vars, split_vars,
                   cd_layers, layer_index, language_index, cd_results,
                   sufficient_match_count>>

CoherenceNext == CoherenceLayer \/ CoherenceLanguage \/ CoherenceReturn

CoherenceSpec == CoherenceInit /\ [][CoherenceNext]_vars

\* C24: once sufficient_match_count has reached 3, no further language of
\* the layer and no later layer adds a result.
C24_StopsAtThree ==
    [][sufficient_match_count >= 3 => cd_results' = cd_results]_vars

\* ------------------------------------ entity.rs: most_probably_language
\* assets.rs:88-97
ENCODING_TO_LANGUAGE ==
    [e \in {"euc-kr", "big5", "hz", "gbk", "gb18030", "euc-jp", "iso-2022-jp", "shift_jis"} |->
        CASE e = "euc-kr" -> "Korean"
          [] e \in {"big5", "hz", "gbk", "gb18030"} -> "Chinese"
          [] OTHER -> "Japanese"]

\* assets.rs:40-84: some entries of LANGUAGES in their order, each alphabet
\* given by the Unicode ranges of its characters
LANGUAGES ==
    <<[language |-> "English", ranges |-> {"Basic Latin"}],
      [language |-> "German", ranges |-> {"Basic Latin", "Latin-1 Supplement"}],
      [language |-> "Russian", ranges |-> {"Cyrillic"}],
      [language |-> "Japanese", ranges |-> {"CJK Unified Ideographs", "CJK Radicals Supplement"}],
      [language |-> "Ukrainian", ranges |-> {"Cyrillic"}],
      [language |-> "Serbian", ranges |-> {"Cyrillic", "Basic Latin"}],
      [language |-> "Greek", ranges |-> {"Greek and Coptic"}]>>

\* cd.rs:20-55: the sorted ranges that hold at least 15% of the characters
\* the code page gives to the bytes 0x40..0xFE, secondary ranges left out; an
\* error for a multi-byte code page
encoding_unicode_range(code_page) ==
    IF is_multi_byte_encoding(code_page) THEN [ok |-> FALSE, ranges |-> <<>>]
    ELSE [ok |-> TRUE,
          ranges |-> CASE code_page = "windows-1251" -> <<"Basic Latin", "Cyrillic">>
                       [] code_page = "iso-8859-7" -> <<"Basic Latin", "Greek and Coptic">>
                       [] OTHER -> <<"Basic Latin">>]

\* str::contains("Latin") on the names of the ranges above
contains_Latin(range) == range \in {"Basic Latin", "Latin-1 Supplement"}

\* filter_map of cd.rs:63-71: the languages from position i on
RECURSIVE languages_from(_, _)
languages_from(primary_range, i) ==
    IF i > Len(LANGUAGES) THEN <<>>
    ELSE (IF primary_range \in LANGUAGES[i].ranges THEN <<LANGUAGES[i].language>> ELSE <<>>)
         \o languages_from(primary_range, i + 1)

\* cd.rs:58-72
unicode_range_languages(primary_range) ==
    IF primary_range = "" THEN <<>> ELSE languages_from(primary_range, 1)

\* cd.rs:76-92
encoding_languages(code_page) ==
    LET res == encoding_unicode_range(code_page)
        specified_ranges == IF res.ok THEN res.ranges ELSE <<>>
        found == {i \in 1..Len(specified_ranges) : ~contains_Latin(specified_ranges[i])}
    IN  IF found = {} THEN <<"Unknown">>
        ELSE unicode_range_languages(specified_ranges[CHOOSE i \in found : \A j \in found : i <= j])

\* cd.rs:96-102
mb_encoding_languages(code_page) ==
    IF code_page \in DOMAIN ENCODING_TO_LANGUAGE THEN <<ENCODING_TO_LANGUAGE[code_page]>>
    ELSE <<>>

\* entity.rs:226-238, the steps taken without a coherence match
language_of_encoding(m) ==
    LET languages == IF is_multi_byte_encoding(m.encoding)
                     THEN mb_encoding_languages(m.encoding)
                     ELSE encoding_languages(m.encoding)
    IN  IF languages = <<>> \/ Contains(languages, "Unknown") THEN "Unknown"
        ELSE languages[1]

\* a variant of most_probably_language without the test for ascii
most_probably_language_no_ascii(m) ==
    IF m.coherence_matches = <<>> THEN language_of_encoding(m)
    ELSE m.coherence_matches[1].language

\* entity.rs:220-244
most_probably_language(m) ==
    IF m.coherence_matches = <<>>
    THEN IF Contains(suitable_encodings(m), "ascii") THEN "English"
         ELSE language_of_encoding(m)
    ELSE m.coherence_matches[1].language

\* ------------------------- most_probably_language as an entry point on its own
LanguageEncodings ==
    {"ascii", "utf-8", "utf-16le", "iso-2022-jp", "big5", "windows-1254",
     "windows-1251", "iso-8859-7"}

\* the coherence matches of a subject: none, one or two
LanguageCoherences ==
    LET one == {[language |-> l, score |-> s] : l \in {"Russian", "English", "Greek"},
                                                  s \in {Scale \div 10, Scale \div 2}}
    IN  {<<>>} \cup {<<c>> : c \in one}
               \cup {<<c, d>> : c \in {x \in one : x.score = Scale \div 2},
                                d \in {x \in one : x.score = Scale \div 10}}

\* the matches asked for their language, each with at most one submatch
LanguageSubjects ==
    {[encoding |-> e, coherence_matches |-> c, submatch |-> sub] :
        e \in LanguageEncodings, c \in LanguageCoherences,
        sub \in {<<>>} \cup {<<[encoding |-> s]>> : s \in {"ascii", "windows-1254"}}}

LanguageInit ==
    /\ MainIdle /\ FirstIdle /\ CoherenceIdle /\ ArchaicIdle /\ SplitIdle
    /\ subject \in [some : {TRUE}, value : LanguageSubjects]
    /\ language_ret = Unset

MostProbablyLanguage ==
    /\ subject.some
    /\ ~language_ret.some
    /\ language_ret' = [some |-> TRUE, value |-> most_probably_language(subject.value)]
    /\ UNCHANGED <<main_vars, unit_vars, coherence_vars, archaic_vars, split_vars, subject>>

LanguageNext == MostProbablyLanguage

LanguageSpec == LanguageInit /\ [][LanguageNext]_vars

\* the language the priority list names for a match
language_by_priority(m) ==
    IF m.coherence_matches # <<>> THEN m.coherence_matches[1].language
    ELSE IF "ascii" \in Range(suitable_encodings(m)) THEN "English"
    ELSE IF is_multi_byte_encoding(m.encoding) /\ m.encoding \in DOMAIN ENCODING_TO_LANGUAGE
         THEN ENCODING_TO_LANGUAGE[m.encoding]
    ELSE IF encoding_languages(m.encoding) # <<>> THEN encoding_languages(m.encoding)[1]
    ELSE "Unknown"

\* C25: most_probably_language returns the language of the first coherence
\* match; else English when the suitable encodings contain ascii; else the
\* language ENCODING_TO_LANGUAGE maps a multi-byte encoding to; else the
\* first of encoding_languages; else Unknown, which it returns only when
\* every earlier step yields nothing.
C25_LanguagePriority ==
    language_ret.some =>
        /\ language_ret.value = language_by_priority(subject.value)
        /\ language_ret.value = "Unknown" =>
              /\ subject.value.coherence_matches = <<>>
              /\ "ascii" \notin Range(suitable_encodings(subject.value))
              /\ subject.value.encoding \notin DOMAIN ENCODING_TO_LANGUAGE
              /\ \/ is_multi_byte_encoding(subject.value.encoding)
                 \/ encoding_languages(subject.value.encoding) \in {<<>>, <<"Unknown">>}

\* a single-byte match without coherence matches and with an ascii submatch
\* has been given English, not the language of its code page
C25_Witness ==
    /\ language_ret.some
    /\ subject.value.coherence_matches = <<>>
    /\ subject.value.encoding = "windows-1251"
    /\ subject.value.submatch # <<>>
    /\ subject.value.submatch[1].encoding = "ascii"
    /\ language_ret.value = "English"

\* --------------------- ArchaicUpperLowerPlugin as an entry point on its own
MaxFeeds == 6

\* a digit, a separator, an ASCII letter, and an upper and a lower case
\* letter outside ASCII
ArchaicChars == {53, 58, 97, 195, 233}

ArchaicInit ==
    /\ MainIdle /\ FirstIdle /\ CoherenceIdle /\ LanguageIdle /\ SplitIdle
    /\ plugin = [some |-> TRUE, value |-> ArchaicUpperLowerPlugin]
    /\ fed = <<>>

\* md.rs:635-679, one call of feed; fed keeps the characters given so far
ArchaicFeed ==
    /\ plugin.some
    /\ Len(fed) < MaxFeeds
    /\ \E c \in ArchaicChars :
          /\ plugin' = [some |-> TRUE,
                        value |-> ArchaicUpperLower_feed(plugin.value, MessDetectorChar[c])]
          /\ fed' = Append(fed, c)
    /\ UNCHANGED <<main_vars, unit_vars, coherence_vars, language_vars, split_vars>>

ArchaicNext == ArchaicFeed

ArchaicSpec == ArchaicInit /\ [][ArchaicNext]_vars

\* the characters of the run that is open: the ones fed since the last close
open_run ==
    SubSeq(fed, Len(fed) - plugin.value.character_count_since_last_sep + 1, Len(fed))

\* C26: the alternation count of a run is added to the final counter only
\* when the run that a separator closes has at most 64 characters, is not
\* pure ASCII and contains no ASCII digit; every other run adds nothing.
C26_ArchaicRunAdded ==
    [][(plugin.some /\ plugin'.some
        /\ plugin'.value.successive_upper_lower_count_final
              # plugin.value.successive_upper_lower_count_final)
       => /\ Len(open_run) <= 64
          /\ \E i \in 1..Len(open_run) : open_run[i] > 127
          /\ \A i \in 1..Len(open_run) : ~is_ascii_digit(open_run[i])]_vars

\* C27: when decode, called with only_test = false and is_chunk = true,
\* succeeds after one or more retries, the string it returns is the strict
\* decoding of the final window input[begin_offset..end_offset], with no
\* character written by the attempts that failed.
C27_ReturnsFinalWindow ==
    (/\ decode_pc = "returned"
     /\ decode_ret.value.ok
     /\ ~only_test
     /\ is_chunk
     /\ rounds > 1)
        => decode_ret.value.text =
              decode_to(encoding_from_whatwg_label(from_encoding),
                        Slice(input, begin_offset, end_offset)).text

\* C28: the fallback that from_bytes records in the utf-8 slot, and the one it
\* returns from that slot, has the encoding utf-8: no other prioritised
\* candidate that soft-fails is stored there.
C28_Utf8SlotHoldsUtf8 ==
    /\ fallback_u8.some => fallback_u8.item.encoding = "utf-8"
    /\ (pc = "returned" /\ fallback.some /\ ~fallback_specified.some
        /\ fallback.item.encoding # "ascii")
          => fallback.item.encoding = "utf-8"

\* whether the input begins with a mark of the encoding e
begins_with_mark_of(e) ==
    \E i \in 1..Len(ENCODING_MARKS) :
        ENCODING_MARKS[i].name = e /\ starts_with(bytes, ENCODING_MARKS[i].sig)

\* C29: for a non-empty input every match that from_bytes returns, ranked or
\* fallback, has bom() true exactly when the input begins with the BOM/SIG of
\* the match's own encoding.
C29_BomIffMark ==
    (pc = "returned" /\ bytes # <<>>)
        => \A i \in 1..Len(ret) :
              ret[i].has_sig_or_bom <=> begins_with_mark_of(ret[i].encoding)

\* ------------------------------ alpha_unicode_split as an entry point on its own
MaxText == 3

\* a digit, an ASCII letter, an upper and a lower case letter of Latin-1
\* Supplement, and a Hangul syllable
SplitChars == {53, 97, 195, 233, 54620}

RECURSIVE TextsUpTo(_)
TextsUpTo(n) ==
    IF n = 0 THEN {<<>>}
    ELSE LET shorter == TextsUpTo(n - 1)
         IN  shorter \cup {Append(t, c) : t \in {u \in shorter : Len(u) = n - 1},
                                          c \in SplitChars}

\* char::to_lowercase
to_lowercase(ch) ==
    CASE ch = 195 -> 227
      [] ch = 510 -> 511
      [] ch = 7776 -> 7777
      [] OTHER -> ch

\* cd.rs:148-154: the discovered ranges that the loop over layers.keys() can
\* stop at; which one it meets first is the iteration order of the HashMap
discovered_targets(layers, character_range) ==
    {discovered_range \in DOMAIN layers :
        ~is_suspiciously_successive_range(discovered_range, character_range)}

\* cd.rs:159-162: the character is pushed to the layer of the target range
push_to_layer(layers, target, ch) ==
    [r \in DOMAIN layers \cup {target} |->
        IF r = target
        THEN (IF target \in DOMAIN layers THEN layers[target] ELSE <<>>)
             \o <<to_lowercase(ch)>>
        ELSE layers[r]]

\* layers.values(), as the multiset of the layer strings
layer_values(layers) ==
    [str \in {layers[r] : r \in DOMAIN layers} |->
        Cardinality({r \in DOMAIN layers : layers[r] = str})]

\* cd.rs:141-142: the call, up to the loop
SplitInit ==
    /\ MainIdle /\ FirstIdle /\ CoherenceIdle /\ LanguageIdle /\ ArchaicIdle
    /\ split_text \in TextsUpTo(MaxText)
    /\ split_layers = <<>>
    /\ split_index = 0
    /\ split_ret = Unset

\* cd.rs:144-164: the body of the loop for one character
SplitCharacter ==
    /\ ~split_ret.some
    /\ split_index < Len(split_text)
    /\ LET ch == split_text[split_index + 1]
           character_range == unicode_range(ch)
           found == discovered_targets(split_layers, character_range)
       IN  IF ~is_alphabetic(ch) \/ character_range = "None"
           THEN split_layers' = split_layers
           ELSE \E target \in (IF found = {} THEN {character_range} ELSE found) :
                   split_layers' = push_to_layer(split_layers, target, ch)
    /\ split_index' = split_index + 1
    /\ UNCHANGED <<main_vars, unit_vars, coherence_vars, language_vars, archaic_vars,
                   split_text, split_ret>>

\* cd.rs:167
SplitReturn ==
    /\ ~split_ret.some
    /\ split_index = Len(split_text)
    /\ split_ret' = [some |-> TRUE, value |-> layer_values(split_layers)]
    /\ UNCHANGED <<main_vars, unit_vars, coherence_vars, language_vars, archaic_vars,
                   split_text, split_layers, split_index>>

SplitNext == SplitCharacter \/ SplitReturn

SplitSpec == SplitInit /\ [][SplitNext]_vars

\* the layers of the run in which, among the ranges the loop can stop at, the
\* loop always meets the same one first
RECURSIVE split_in_one_order(_, _, _)
split_in_one_order(text, i, layers) ==
    IF i > Len(text) THEN layers
    ELSE LET ch == text[i]
             character_range == unicode_range(ch)
             found == discovered_targets(layers, character_range)
             next == IF ~is_alphabetic(ch) \/ character_range = "None" THEN layers
                     ELSE push_to_layer(layers,
                                        IF found = {} THEN character_range
                                        ELSE CHOOSE target \in found : TRUE,
                                        ch)
         IN  split_in_one_order(text, i + 1, next)

\* C30: alpha_unicode_split is deterministic: the multiset of the layer
\* strings it returns for a text is the same in every run, whatever the
\* iteration order of the map from ranges to layers.
C30_SplitDeterministic ==
    split_ret.some =>
        split_ret.value = layer_values(split_in_one_order(split_text, 1, <<>>))
====
